---- MODULE Spec2Model ----
(***************************************************************************)
(* A model of the context-aware translation pipeline of the Discord AI     *)
(* translator: the message store (database.py), the context filter, the    *)
(* response parser and the orchestrator (translator.py).                   *)
(*                                                                         *)
(* Text is modelled as a sequence of lexemes (one-string tokens); a        *)
(* position in a text is an index into that sequence.                      *)
(***************************************************************************)
EXTENDS Integers, Sequences, FiniteSets, TLC

VARIABLES
    messages,       \* the rows of table "messages" (database.py:43-53)
    ctx,            \* the last get_relevant_context call and what it returned
    lastSaved,      \* history: msg_id -> the row of the latest save_message
    response,       \* the raw completion text given to parse_translation_response
    parsed,         \* what parse_translation_response returned for it
    context_list,   \* the raw context window given to the filter / the orchestrator
    calls,          \* the exchanges with the completion service so far, in call order
    filtered,       \* what filter_context_with_ai returned
    message_content,\* the message given to translate_with_context
    translated,     \* what translate_with_context returned
    detected,       \* what detect_language_instruction returned
    purge,          \* the last delete_old_messages call: the table before and after, the count returned
    completion,     \* the last call_mimo_api call: the exchange and what the call did
    running,        \* the pipeline that holds the thread between two awaits, or none
    pc,             \* pipeline -> the statement of the store method it is at
    job,            \* pipeline -> the arguments and locals of the store method it runs
    working,        \* the open transaction of the connection, or none
    committed,      \* history: msg_id -> the last committed save_message of that id
    returned,       \* the get_relevant_context call that returned: its window, the tables committed during it
    reaction,       \* the reaction event in hand, numbered
    handler,        \* the reaction handler: the statement it is at, its locals
    sent,           \* the messages the bot has sent, each with the number of the reaction it answers
    target_lang,    \* the language override given to translate, or none
    cleanup,        \* the retention loop: the statement it is at, its last purge and the one before
    clock,          \* the number of sleeps of the retention loop that have ended, modulo NumDays
    closed          \* whether the bot is closed

storeVars == <<messages, ctx, lastSaved>>
parseVars == <<response, parsed>>
filterVars == <<context_list, calls, filtered>>
transVars == <<message_content, translated>>
detectVars == <<detected>>
purgeVars == <<purge>>
clientVars == <<completion>>
concVars == <<running, pc, job, working, committed, returned>>
botVars == <<reaction, handler, sent>>
overrideVars == <<target_lang>>
cleanupVars == <<cleanup, clock, closed>>
vars == <<storeVars, parseVars, filterVars, transVars, detectVars, purgeVars, clientVars, concVars, botVars, overrideVars, cleanupVars>>

(***************************************************************************)
(* Bounds of the model.                                                    *)
(***************************************************************************)
NumMsgs == 3
MaxLimit == 2
NumUpsertIds == 2
NumFillers == 2
MaxContext == 3
MaxIndices == 2
NumPipelines == 2
NumReactions == 2
NumDays == 3

(***************************************************************************)
(* Generic helpers on sequences.                                           *)
(***************************************************************************)
\* A slip: the rows are left in query order.
NotReversed(s) == s

Reverse(s) == [i \in 1..Len(s) |-> s[Len(s) + 1 - i]]

Range(s) == {s[i] : i \in 1..Len(s)}

Min(a, b) == IF a <= b THEN a ELSE b

(***************************************************************************)
(* Message store: database.py                                              *)
(***************************************************************************)
NULL == "NULL"

\* Python truthiness of an Optional[str]: None and "" are falsy.
Truthy(x) == x /= NULL /\ x /= ""

\* A timestamp text: date, separator, time of day.  Texts compare as SQLite
\* compares TEXT (memcmp): field by field, left to right; " " sorts before "T".
SepCode(sep) == IF sep = "T" THEN 84 ELSE 32

\* A slip: the comparison of the dates alone, the cutoff day included.
TextLessOrSameDay(a, b) == a.day <= b.day

TextLess(a, b) ==
    \/ a.day < b.day
    \/ a.day = b.day /\ SepCode(a.sep) < SepCode(b.sep)
    \/ a.day = b.day /\ a.sep = b.sep /\ a.time < b.time

TextLeq(a, b) == a = b \/ TextLess(a, b)

\* message.created_at.isoformat(): "YYYY-MM-DDTHH:MM:SS..."
isoformat(day, time) == [day |-> day, sep |-> "T", time |-> time]

\* SQLite datetime('now', '-N days'): "YYYY-MM-DD HH:MM:SS"
sqlite_datetime(now, days) == [day |-> now.day - days, sep |-> " ", time |-> now.time]

MsgIds == 1..NumMsgs
Contents == {"hello", "hola"}
Timestamps == {isoformat(0, 1), isoformat(1, 0), isoformat(1, 1)}
Scopes == {[channel_id |-> "c1", thread_id |-> NULL],
           [channel_id |-> "c2", thread_id |-> NULL],
           [channel_id |-> "c1", thread_id |-> "t1"],
           [channel_id |-> "c1", thread_id |-> "t2"]}
Limits == 0..MaxLimit
RetentionDays == 7
Nows == {[day |-> RetentionDays + 1, time |-> 0], [day |-> RetentionDays + 1, time |-> 1]}

Row(msg_id, content, timestamp, channel_id, thread_id) ==
    [msg_id |-> msg_id, content |-> content, timestamp |-> timestamp,
     channel_id |-> channel_id, thread_id |-> thread_id]

\* A slip: INSERT OR IGNORE, which keeps the row already stored under the key.
InsertOrIgnore(table, row) ==
    IF \E r \in table : r.msg_id = row.msg_id THEN table ELSE table \cup {row}

\* INSERT OR REPLACE on a table whose PRIMARY KEY is msg_id: the rows in
\* conflict with the new row are deleted, then the new row is inserted.
InsertOrReplace(table, row) == {r \in table : r.msg_id /= row.msg_id} \cup {row}

\* save_message: one transaction holding one INSERT OR REPLACE.
save_message(msg_id, content, timestamp, channel_id, thread_id) ==
    messages' = InsertOrReplace(messages,
                    Row(msg_id, content, timestamp, channel_id, thread_id))

\* get_message: SELECT * FROM messages WHERE msg_id = ?  (the rows fetchone
\* may return; none when the set is empty).
get_message(table, msg_id) == {r \in table : r.msg_id = msg_id}

\* A slip: the scope is the channel alone, threads included.
InScopeChannelOnly(r, target) == r.channel_id = target.channel_id

\* The WHERE clause of the two context queries.
InScope(r, target) ==
    IF Truthy(target.thread_id)
    THEN r.thread_id = target.thread_id
    ELSE r.channel_id = target.channel_id /\ r.thread_id = NULL

\* A slip: the clause "AND msg_id != ?" is missing.
ContextCandidatesWithTarget(table, target, msg_id) ==
    {r \in table : /\ InScope(r, target)
                   /\ TextLeq(r.timestamp, target.timestamp)}

ContextCandidates(table, target, msg_id) ==
    {r \in table : /\ InScope(r, target)
                   /\ TextLeq(r.timestamp, target.timestamp)
                   /\ r.msg_id /= msg_id}

\* SQLite LIMIT n: n rows at most; a negative n means no upper bound.
LimitCount(n, limit) == IF limit < 0 THEN n ELSE Min(n, limit)

\* ORDER BY timestamp DESC LIMIT ?: the first rows of some descending
\* arrangement of the candidates; rows of equal timestamp come in any order.
OrderByDescLimit(cands, limit) ==
    LET k == LimitCount(Cardinality(cands), limit) IN
    {s \in [1..k -> cands] :
        /\ \A i, j \in 1..k : i < j => s[i] /= s[j]
        /\ \A i, j \in 1..k : i < j => TextLeq(s[j].timestamp, s[i].timestamp)
        /\ \A r \in cands \ Range(s) :
              \A i \in 1..k : TextLeq(r.timestamp, s[i].timestamp)}

\* The lists get_relevant_context may return on this table.
ContextWindows(table, msg_id, limit) ==
    IF get_message(table, msg_id) = {}
    THEN {<<>>}
    ELSE UNION {{Reverse(rows) :
                   rows \in OrderByDescLimit(
                               ContextCandidates(table, target, msg_id), limit)} :
                target \in get_message(table, msg_id)}

NoCtx == [called |-> FALSE, msg_id |-> 0, limit |-> 0, window |-> <<>>]

get_relevant_context(msg_id, limit) ==
    /\ \E w \in ContextWindows(messages, msg_id, limit) :
          ctx' = [called |-> TRUE, msg_id |-> msg_id, limit |-> limit, window |-> w]
    /\ UNCHANGED messages

\* delete_old_messages: DELETE FROM messages WHERE timestamp < datetime('now', '-N days')
delete_old_messages(days, now) ==
    messages' = {r \in messages :
                    ~TextLess(r.timestamp, sqlite_datetime(now, days))}

\* cursor.rowcount of that DELETE: the number of rows its WHERE selects.
rowcount(table, days, now) ==
    Cardinality({r \in table : TextLess(r.timestamp, sqlite_datetime(now, days))})

NotPurged == [called |-> FALSE, before |-> {}, after |-> {},
              now |-> [day |-> 0, time |-> 0], days |-> 0, deleted |-> 0]

PurgeIdle == purge = NotPurged

(***************************************************************************)
(* Text: a sequence of lexemes.  Python positions are 0-based; text[a:b]   *)
(* is a slice.                                                             *)
(***************************************************************************)
Whitespace == {" ", "\n"}
\* ":" and the full-width colon (U+FF1A), written "fw:".
Colons == {":", "fw:"}

Slice(text, a, b) == SubSeq(text, a + 1, b)

\* str.find: the lowest position where marker occurs in text, or -1.
Find(text, marker) ==
    LET hits == {i \in 0..(Len(text) - Len(marker)) :
                    text[i + 1] = marker[1] /\ Slice(text, i, i + Len(marker)) = marker}
    IN IF hits = {} THEN -1 ELSE CHOOSE i \in hits : \A j \in hits : i <= j

RECURSIVE LStrip(_)
LStrip(text) ==
    IF text /= <<>> /\ Head(text) \in Whitespace THEN LStrip(Tail(text)) ELSE text

RECURSIVE RStrip(_)
RStrip(text) ==
    IF text /= <<>> /\ text[Len(text)] \in Whitespace
    THEN RStrip(SubSeq(text, 1, Len(text) - 1))
    ELSE text

\* str.strip()
Strip(text) == RStrip(LStrip(text))

\* re.sub(r"^[fw::]\s*", "", text): one leading colon of either width, then whitespace.
RemoveLeadingColon(text) ==
    IF text /= <<>> /\ Head(text) \in Colons THEN LStrip(Tail(text)) ELSE text

(***************************************************************************)
(* Response parser: translator.py, parse_translation_response              *)
(***************************************************************************)
Bracketed(label) == <<"[">> \o label \o <<"]">>
\* The full-width brackets U+3010 and U+3011 are written "fw[" and "fw]".
FullWidth(label) == <<"fw[">> \o label \o <<"fw]">>
Labelled(label) == label \o <<":">>

TranslationLabel == <<"Translation">>
ContextTermLabel == <<"Context", "/Term Explanation">>
ContextLabel == <<"Context">>
ToneNotesLabel == <<"Tone", " ", "Notes">>
ToneLabel == <<"Tone">>

\* The dict "sections", in its insertion order, each with its markers in order.
sections ==
    << [name |-> "translation",
        markers |-> << Bracketed(TranslationLabel), FullWidth(TranslationLabel),
                       Labelled(TranslationLabel) >>],
       [name |-> "context_explanation",
        markers |-> << Bracketed(ContextTermLabel), FullWidth(ContextTermLabel),
                       Labelled(ContextTermLabel), Bracketed(ContextLabel),
                       FullWidth(ContextLabel) >>],
       [name |-> "tone_notes",
        markers |-> << Bracketed(ToneNotesLabel), FullWidth(ToneNotesLabel),
                       Labelled(ToneNotesLabel), Bracketed(ToneLabel),
                       FullWidth(ToneLabel) >>] >>

SectionNames == {sections[i].name : i \in 1..Len(sections)}

\* The inner loop: the first marker of the list that occurs in the text gives
\* the section's (pos, name, len(marker)); no entry when none occurs.
RECURSIVE FirstMarkerFound(_, _, _, _)
FirstMarkerFound(text, name, markers, i) ==
    IF i > Len(markers) THEN <<>>
    ELSE IF Find(text, markers[i]) /= -1
         THEN << [pos |-> Find(text, markers[i]), name |-> name,
                  marker_len |-> Len(markers[i])] >>
         ELSE FirstMarkerFound(text, name, markers, i + 1)

RECURSIVE FindSections(_, _)
FindSections(text, i) ==
    IF i > Len(sections) THEN <<>>
    ELSE FirstMarkerFound(text, sections[i].name, sections[i].markers, 1)
            \o FindSections(text, i + 1)

\* list.sort(key=lambda x: x[0]): stable, ascending by position.
RECURSIVE InsertByPos(_, _)
InsertByPos(sorted, e) ==
    IF sorted = <<>> THEN <<e>>
    ELSE IF sorted[Len(sorted)].pos <= e.pos THEN Append(sorted, e)
         ELSE Append(InsertByPos(SubSeq(sorted, 1, Len(sorted) - 1), e),
                     sorted[Len(sorted)])

RECURSIVE SortByPos(_)
SortByPos(list) ==
    IF list = <<>> THEN <<>>
    ELSE InsertByPos(SortByPos(SubSeq(list, 1, Len(list) - 1)), list[Len(list)])

\* The content of the i-th found section: from the end of its marker to the
\* start of the next found marker, or to the end of the text.
SectionContent(text, section_positions, i) ==
    LET start == section_positions[i].pos + section_positions[i].marker_len
        end == IF i + 1 <= Len(section_positions)
               THEN section_positions[i + 1].pos
               ELSE Len(text)
    IN RemoveLeadingColon(Strip(Slice(text, start, end)))

EmptyParse == [n \in SectionNames |-> <<>>]

\* The extraction loop: result[name] = content, entry by entry.
RECURSIVE ExtractSections(_, _, _, _)
ExtractSections(result, text, section_positions, i) ==
    IF i > Len(section_positions) THEN result
    ELSE ExtractSections(
            [result EXCEPT ![section_positions[i].name] =
                SectionContent(text, section_positions, i)],
            text, section_positions, i + 1)

\* A slip: the fallback is missing.
NoFallback(result, text, section_positions) == result

\* if not result["translation"]: result["translation"] = response.strip()
Fallback(result, text, section_positions) ==
    IF result["translation"] = <<>>
    THEN [result EXCEPT !["translation"] = Strip(text)]
    ELSE result

parse_translation_response(text) ==
    LET section_positions == SortByPos(FindSections(text, 1))
    IN Fallback(ExtractSections(EmptyParse, text, section_positions, 1),
                text, section_positions)

(***************************************************************************)
(* Completion client: translator.py, call_mimo_api.  An exchange is what    *)
(* the service does with one request; the outcome is what the call does.    *)
(***************************************************************************)
\* Optional values: None, or a value.
None == <<>>
Some(x) == <<x>>

\* An exception: its class and its str().
Exc(class, msg) == [class |-> class, msg |-> msg]
NoExc == Exc("none", <<>>)

\* What a call did: returned a text, returned None, or raised.
Returned(text) == [kind |-> "return", text |-> text, exc |-> NoExc]
ReturnedNone == [kind |-> "return_none", text |-> <<>>, exc |-> NoExc]
Raised(exc) == [kind |-> "raise", text |-> <<>>, exc |-> exc]

TranslationError(msg) == Exc("TranslationError", <<msg>>)

ExchangeKinds == {"no_api_key", "timeout", "request_error", "bad_status",
                  "invalid_json", "no_choices", "malformed_choice",
                  "null_content", "ok"}

Exchange(kind, text) == [kind |-> kind, text |-> text]

\* The exchanges that carry no completion text.
FailingExchanges == {Exchange(k, <<>>) : k \in ExchangeKinds \ {"ok"}}

call_mimo_api(exchange) ==
    CASE exchange.kind = "no_api_key" ->
            Raised(TranslationError("MIMO_API_KEY environment variable is not set"))
      [] exchange.kind = "timeout" ->
            Raised(TranslationError("API request timed out"))
      [] exchange.kind = "request_error" ->
            Raised(TranslationError("API request failed: e"))
      [] exchange.kind = "bad_status" ->
            Raised(TranslationError("API returned status 500: text"))
      [] exchange.kind = "invalid_json" ->
            Raised(TranslationError("Invalid JSON response from API"))
      [] exchange.kind = "no_choices" ->
            Raised(TranslationError("Invalid API response: no choices found"))
      [] exchange.kind = "malformed_choice" ->
            Raised(Exc("KeyError", <<"'message'">>))
      [] exchange.kind = "null_content"     -> ReturnedNone
      [] exchange.kind = "ok"               -> Returned(exchange.text)

(***************************************************************************)
(* json.loads on a text of lexemes: digits, "-", ".", brackets, commas,     *)
(* whitespace, and the atomic lexemes "true", "{}" and the string literal   *)
(* "\"1\"".  Every other lexeme is no JSON.                                 *)
(***************************************************************************)
Digits == <<"0", "1", "2", "3", "4", "5", "6", "7", "8", "9">>
DigitSet == Range(Digits)
DigitValue(d) == (CHOOSE i \in 1..Len(Digits) : Digits[i] = d) - 1

JsonFail == [ok |-> FALSE, kind |-> "none", num |-> 0, next |-> 0]
JsonValue(kind, num, next) == [ok |-> TRUE, kind |-> kind, num |-> num, next |-> next]

RECURSIVE SkipWhitespace(_, _)
SkipWhitespace(text, i) ==
    IF i <= Len(text) /\ text[i] \in Whitespace THEN SkipWhitespace(text, i + 1) ELSE i

\* The digits of a run starting at i: (value, index after the run).
RECURSIVE DigitRun(_, _, _)
DigitRun(text, i, acc) ==
    IF i <= Len(text) /\ text[i] \in DigitSet
    THEN DigitRun(text, i + 1, acc * 10 + DigitValue(text[i]))
    ELSE [num |-> acc, next |-> i]

\* NUMBER_RE: (-?(?:0|[1-9]\d*))(\.\d+)?  at index i (after the sign).
JsonNumber(text, i, sign) ==
    IF i > Len(text) \/ text[i] \notin DigitSet THEN JsonFail
    ELSE LET int == IF text[i] = "0" THEN [num |-> 0, next |-> i + 1]
                    ELSE DigitRun(text, i, 0)
             frac == int.next + 1 <= Len(text) /\ text[int.next] = "."
                        /\ text[int.next + 1] \in DigitSet
         IN IF frac
            THEN JsonValue("float", 0, DigitRun(text, int.next + 1, 0).next)
            ELSE JsonValue("int", sign * int.num, int.next)

\* One element of a JSON array at index i: a number, true, a string, an
\* object or a nested array (of which only the kind matters to the caller).
RECURSIVE JsonElement(_, _)
RECURSIVE JsonArrayItems(_, _, _)

\* The items of an array whose "[" is before index i; first: no item read yet.
JsonArrayItems(text, i, items) ==
    LET j == SkipWhitespace(text, i) IN
    IF j > Len(text) THEN [ok |-> FALSE, items |-> <<>>, next |-> 0]
    ELSE IF text[j] = "]" /\ items = <<>>
         THEN [ok |-> TRUE, items |-> items, next |-> j + 1]
         ELSE LET e == JsonElement(text, j) IN
              IF ~e.ok THEN [ok |-> FALSE, items |-> <<>>, next |-> 0]
              ELSE LET k == SkipWhitespace(text, e.next) IN
                   IF k > Len(text) THEN [ok |-> FALSE, items |-> <<>>, next |-> 0]
                   ELSE IF text[k] = "]"
                        THEN [ok |-> TRUE,
                              items |-> Append(items, [kind |-> e.kind, num |-> e.num]),
                              next |-> k + 1]
                        ELSE IF text[k] = ","
                             THEN LET rest == JsonArrayItems(text, k + 1,
                                                 Append(items, [kind |-> e.kind, num |-> e.num]))
                                  IN IF rest.ok /\ Len(rest.items) = Len(items) + 1
                                     THEN [ok |-> FALSE, items |-> <<>>, next |-> 0]
                                     ELSE rest
                             ELSE [ok |-> FALSE, items |-> <<>>, next |-> 0]

JsonElement(text, i) ==
    IF i > Len(text) THEN JsonFail
    ELSE CASE text[i] = "-"     -> JsonNumber(text, i + 1, -1)
           [] text[i] \in DigitSet -> JsonNumber(text, i, 1)
           [] text[i] = "true"  -> JsonValue("bool", 1, i + 1)
           [] text[i] = "\"1\"" -> JsonValue("str", 0, i + 1)
           [] text[i] = "{}"    -> JsonValue("dict", 0, i + 1)
           [] text[i] = "["     ->
                 LET a == JsonArrayItems(text, i + 1, <<>>)
                 IN IF a.ok THEN JsonValue("list", 0, a.next) ELSE JsonFail
           [] OTHER             -> JsonFail

\* json.loads(text): [ok, kind, items]; ok = FALSE is JSONDecodeError.
json_loads(text) ==
    LET i == SkipWhitespace(text, 1)
        bad == [ok |-> FALSE, kind |-> "none", items |-> <<>>]
    IN IF i > Len(text) THEN bad
       ELSE IF text[i] = "["
            THEN LET a == JsonArrayItems(text, i + 1, <<>>)
                 IN IF a.ok /\ SkipWhitespace(text, a.next) > Len(text)
                    THEN [ok |-> TRUE, kind |-> "list", items |-> a.items]
                    ELSE bad
            ELSE LET e == JsonElement(text, i)
                 IN IF e.ok /\ SkipWhitespace(text, e.next) > Len(text)
                    THEN [ok |-> TRUE, kind |-> e.kind, items |-> <<>>]
                    ELSE bad

(***************************************************************************)
(* Context filter: translator.py, filter_context_with_ai                    *)
(***************************************************************************)
\* re.sub(r"^```(?:json)?\s*", "", text); "fence" is the lexeme of three backticks.
RemoveFenceOpen(text) ==
    IF text /= <<>> /\ Head(text) = "fence"
    THEN IF Len(text) >= 2 /\ text[2] = "json"
         THEN LStrip(SubSeq(text, 3, Len(text)))
         ELSE LStrip(Tail(text))
    ELSE text

\* re.sub(r"\s*```$", "", text)
RemoveFenceClose(text) ==
    IF text /= <<>> /\ text[Len(text)] = "fence"
    THEN RStrip(SubSeq(text, 1, Len(text) - 1))
    ELSE text

RemoveFences(text) ==
    IF text /= <<>> /\ Head(text) = "fence"
    THEN RemoveFenceClose(RemoveFenceOpen(text))
    ELSE text

\* The characters of the class [\d,\s].
ArrayChars == DigitSet \cup {","} \cup Whitespace

\* The end of a match of \[[\d,\s]*\] that starts at index i, or 0.
RECURSIVE ArrayMatchEnd(_, _)
ArrayMatchEnd(text, j) ==
    IF j > Len(text) THEN 0
    ELSE IF text[j] = "]" THEN j
         ELSE IF text[j] \in ArrayChars THEN ArrayMatchEnd(text, j + 1) ELSE 0

\* re.search(r"\[[\d,\s]*\]", text): the leftmost match, or the text itself.
ExtractArray(text) ==
    LET starts == {i \in 1..Len(text) :
                      text[i] = "[" /\ ArrayMatchEnd(text, i + 1) /= 0}
    IN IF starts = {} THEN text
       ELSE LET i == CHOOSE a \in starts : \A b \in starts : a <= b
            IN SubSeq(text, i, ArrayMatchEnd(text, i + 1))

\* isinstance(idx, int) and 1 <= idx <= len(context_list); bool is an int.
ValidIndex(item, n) == item.kind \in {"int", "bool"} /\ 1 <= item.num /\ item.num <= n

\* The loop: filtered.append(context_list[idx - 1]) for each valid idx.
RECURSIVE SelectByIndices(_, _, _)
SelectByIndices(window, items, i) ==
    IF i > Len(items) THEN <<>>
    ELSE (IF ValidIndex(items[i], Len(window))
          THEN <<window[items[i].num]>> ELSE <<>>)
         \o SelectByIndices(window, items, i + 1)

\* return filtered if filtered else context_list
SelectedOrAll(window, selected) == IF selected = <<>> THEN window ELSE selected

\* What the filter did: returned a list, or raised.
ReturnedList(list) == [kind |-> "return", value |-> list, exc |-> NoExc]
RaisedFromFilter(exc) == [kind |-> "raise", value |-> <<>>, exc |-> exc]

\* The body of the try block, given what call_mimo_api did.  None has no
\* strip(); json.loads raises JSONDecodeError.
FilterTry(window, outcome) ==
    CASE outcome.kind = "raise" -> RaisedFromFilter(outcome.exc)
      [] outcome.kind = "return_none" ->
            RaisedFromFilter(Exc("AttributeError", <<"'NoneType' object has no attribute 'strip'">>))
      [] outcome.kind = "return" ->
            LET decoded == json_loads(ExtractArray(RemoveFences(Strip(outcome.text))))
            IN IF ~decoded.ok
               THEN RaisedFromFilter(Exc("JSONDecodeError", <<"Expecting value">>))
               ELSE IF decoded.kind /= "list" THEN ReturnedList(window)
                    ELSE ReturnedList(SelectedOrAll(window,
                                         SelectByIndices(window, decoded.items, 1)))

\* A slip: no handler, what the try block raised propagates.
FilterNoExcept(window, attempt) == attempt

\* except json.JSONDecodeError / except Exception: return context_list
FilterExcept(window, attempt) ==
    IF attempt.kind = "raise" THEN ReturnedList(window) ELSE attempt

FilterFromOutcome(window, outcome) == FilterExcept(window, FilterTry(window, outcome))

\* A slip: only the empty window is returned without a call.
ShortCircuitEmptyOnly(window) == window = <<>>

\* if not context_list: return []; if len(context_list) <= 2: return context_list
ShortCircuit(window) == window = <<>> \/ Len(window) <= 2

\* filter_context_with_ai(target_content, context_list) when the service
\* answers a call with the given exchange: what it did, and the exchanges used.
filter_context_with_ai(window, exchange) ==
    IF ShortCircuit(window)
    THEN [outcome |-> ReturnedList(IF window = <<>> THEN <<>> ELSE window),
          used |-> <<>>]
    ELSE [outcome |-> FilterFromOutcome(window, call_mimo_api(exchange)),
          used |-> <<exchange>>]

(***************************************************************************)
(* Inputs of the filter.  A context window is a list of stored messages,    *)
(* told apart by msg_id; a reply is a body in a wrapper.                    *)
(***************************************************************************)
ContextEntry(i) == [msg_id |-> i, user_name |-> "u", content |-> "hello"]
Window(n) == [i \in 1..n |-> ContextEntry(i)]
Windows == {Window(n) : n \in 0..MaxContext}

\* What the model may list: the indices 0..MaxContext+1, a two-digit number,
\* a negative number, a float, true and a string.
IndexElements ==
    {<<Digits[d + 1]>> : d \in 0..(MaxContext + 1)}
      \cup {<<"1", "2">>, <<"-", "1">>, <<"1", ".", "0">>, <<"true">>, <<"\"1\"">>}

RECURSIVE Joined(_, _)
Joined(elems, sep) ==
    IF elems = <<>> THEN <<>>
    ELSE IF Len(elems) = 1 THEN elems[1]
         ELSE elems[1] \o sep \o Joined(Tail(elems), sep)

ElementLists ==
    UNION {[1..n -> IndexElements] : n \in 0..MaxIndices}

Separators == {<<",">>, <<",", " ">>, <<" ">>, <<",", ",">>}

ReplyBodies ==
    {<<"[">> \o Joined(l, sep) \o <<"]">> : l \in ElementLists, sep \in Separators}
      \cup {<<"[">> \o e \o <<",", "]">> : e \in IndexElements}
      \cup {<<"[">> \o e : e \in IndexElements}
      \cup {<<"[", "[">> \o e \o <<"]", "]">> : e \in IndexElements}
      \cup IndexElements
      \cup {<<>>, <<"{}">>, <<"x">>, <<"x", "[", "x", "]">>}

Wrapped(body) ==
    {body,
     <<" ">> \o body \o <<"\n">>,
     <<"x", ":", " ">> \o body,
     body \o <<" ", "x">>,
     <<"fence", "json", "\n">> \o body \o <<"\n", "fence">>,
     <<"fence", "\n">> \o body \o <<"\n", "fence">>,
     <<"fence", "json">> \o body}

FilterReplies == UNION {Wrapped(b) : b \in ReplyBodies}

FilterExchanges == FailingExchanges \cup {Exchange("ok", t) : t \in FilterReplies}

NotFiltered == [called |-> FALSE, raised |-> FALSE, result |-> <<>>]

FilterIdle ==
    /\ context_list = <<>>
    /\ calls = <<>>
    /\ filtered = NotFiltered

(***************************************************************************)
(* Language instruction: translator.py, detect_language_instruction.        *)
(* The words of a message are lexemes; the Chinese ones are written in      *)
(* pinyin: "fanyi" U+7FFB U+8BD1, "yi" U+8BD1, "wei" U+4E3A, "cheng"        *)
(* U+6210, "riwen" U+65E5 U+6587, "zhongwen" U+4E2D U+6587, "jianti"        *)
(* U+7B80 U+4F53.                                                           *)
(***************************************************************************)
\* The lexemes made of characters of the class \w.
WordLexemes == {"fanyi", "yi", "wei", "cheng", "riwen", "zhongwen", "jianti",
                "translate", "Translate", "to", "into", "japanese", "Japanese",
                "english", "klingon", "hello", "a", "b",
                "fanti", "yingwen", "yingyu", "riyu", "hanwen", "hanyu", "fawen",
                "fayu", "dewen", "deyu", "xibanyawen", "xibanyayu", "ewen", "eyu",
                "yidaliwen", "yidaliyu", "putaoyawen", "putaoyayu", "alabowen",
                "alaboyu", "chinese", "simplified", "traditional", "korean",
                "french", "german", "spanish", "russian", "italian", "portuguese",
                "arabic", "xx"}

\* str.lower(), and what re.IGNORECASE compares.
Lower(lexeme) ==
    CASE lexeme = "Translate" -> "translate"
      [] lexeme = "Japanese"  -> "japanese"
      [] OTHER                -> lexeme

LowerAll(text) == [i \in 1..Len(text) |-> Lower(text[i])]

\* Each pattern is ^ prefix optional? (\w+).
Pattern(prefix, optional) == [prefix |-> prefix, optional |-> optional]

LANGUAGE_PATTERNS ==
    << Pattern(<<"fanyi">>, <<"wei">>),
       Pattern(<<"fanyi">>, <<"cheng">>),
       Pattern(<<"yi">>, <<"wei">>),
       Pattern(<<"yi">>, <<"cheng">>),
       Pattern(<<"translate", " ", "to", " ">>, <<>>),
       Pattern(<<"translate", " ", "into", " ">>, <<>>) >>

\* A name of LANGUAGE_MAP with its code.
Entry(name, code) == [name |-> name, code |-> code]

\* LANGUAGE_MAP, its items in the order of the dict literal; a Chinese name
\* is written as its words in pinyin.
LANGUAGE_MAP ==
    << Entry(<<"zhongwen">>, "zh"),
       Entry(<<"jianti", "zhongwen">>, "zh"),
       Entry(<<"fanti", "zhongwen">>, "zh-tw"),
       Entry(<<"yingwen">>, "en"),
       Entry(<<"yingyu">>, "en"),
       Entry(<<"riwen">>, "ja"),
       Entry(<<"riyu">>, "ja"),
       Entry(<<"hanwen">>, "ko"),
       Entry(<<"hanyu">>, "ko"),
       Entry(<<"fawen">>, "fr"),
       Entry(<<"fayu">>, "fr"),
       Entry(<<"dewen">>, "de"),
       Entry(<<"deyu">>, "de"),
       Entry(<<"xibanyawen">>, "es"),
       Entry(<<"xibanyayu">>, "es"),
       Entry(<<"ewen">>, "ru"),
       Entry(<<"eyu">>, "ru"),
       Entry(<<"yidaliwen">>, "it"),
       Entry(<<"yidaliyu">>, "it"),
       Entry(<<"putaoyawen">>, "pt"),
       Entry(<<"putaoyayu">>, "pt"),
       Entry(<<"alabowen">>, "ar"),
       Entry(<<"alaboyu">>, "ar"),
       Entry(<<"chinese">>, "zh"),
       Entry(<<"simplified", " ", "chinese">>, "zh"),
       Entry(<<"traditional", " ", "chinese">>, "zh-tw"),
       Entry(<<"english">>, "en"),
       Entry(<<"japanese">>, "ja"),
       Entry(<<"korean">>, "ko"),
       Entry(<<"french">>, "fr"),
       Entry(<<"german">>, "de"),
       Entry(<<"spanish">>, "es"),
       Entry(<<"russian">>, "ru"),
       Entry(<<"italian">>, "it"),
       Entry(<<"portuguese">>, "pt"),
       Entry(<<"arabic">>, "ar") >>

\* LANGUAGE_MAP.get(name)
LANGUAGE_MAP_get(name) ==
    IF \E i \in 1..Len(LANGUAGE_MAP) : LANGUAGE_MAP[i].name = name
    THEN Some(LANGUAGE_MAP[CHOOSE i \in 1..Len(LANGUAGE_MAP) :
                               LANGUAGE_MAP[i].name = name].code)
    ELSE None

\* The index after the longest run of \w lexemes that starts at index i.
RECURSIVE WordRunEnd(_, _)
WordRunEnd(text, i) ==
    IF i <= Len(text) /\ text[i] \in WordLexemes THEN WordRunEnd(text, i + 1) ELSE i

NoMatch == [matched |-> FALSE, group |-> <<>>, end |-> 0]

\* re.match(pattern, text, re.IGNORECASE): the optional lexeme is taken when
\* a word still follows it, else the group starts where it stands.
re_match(pattern, text) ==
    LET p == Len(pattern.prefix)
        i == p + 1
    IN IF Len(text) < p \/ LowerAll(SubSeq(text, 1, p)) /= pattern.prefix
       THEN NoMatch
       ELSE IF /\ pattern.optional /= <<>>
               /\ i <= Len(text)
               /\ Lower(text[i]) = pattern.optional[1]
               /\ WordRunEnd(text, i + 1) > i + 1
            THEN [matched |-> TRUE,
                  group |-> SubSeq(text, i + 1, WordRunEnd(text, i + 1) - 1),
                  end |-> WordRunEnd(text, i + 1)]
            ELSE IF WordRunEnd(text, i) > i
                 THEN [matched |-> TRUE,
                       group |-> SubSeq(text, i, WordRunEnd(text, i) - 1),
                       end |-> WordRunEnd(text, i)]
                 ELSE NoMatch

\* detect_language_instruction(content): (cleaned_content, target_lang).
detect_language_instruction(content) ==
    LET stripped == Strip(content)
        hits == {k \in 1..Len(LANGUAGE_PATTERNS) :
                    re_match(LANGUAGE_PATTERNS[k], stripped).matched}
    IN IF hits = {}
       THEN [cleaned |-> stripped, target |-> None]
       ELSE LET k == CHOOSE a \in hits : \A b \in hits : a <= b
                m == re_match(LANGUAGE_PATTERNS[k], stripped)
            IN [cleaned |-> RemoveLeadingColon(
                                Strip(SubSeq(stripped, m.end, Len(stripped)))),
                target |-> LANGUAGE_MAP_get(LowerAll(m.group))]

(***************************************************************************)
(* Orchestrator: translator.py, translate_with_context.  The service is     *)
(* the list of exchanges it gives to the successive calls.  The prompt      *)
(* text only feeds the service, whose answer is any exchange.               *)
(***************************************************************************)
ResultKeys == {"original", "cleaned", "target_language", "translation",
               "context_explanation", "tone_notes", "relevant_context", "error"}

InitialResult(content) ==
    [original |-> content,
     cleaned |-> content,
     target_language |-> None,
     translation |-> <<>>,
     context_explanation |-> <<>>,
     tone_notes |-> <<>>,
     relevant_context |-> <<>>,
     error |-> None]

Attempt(result, exc, used) == [result |-> result, exc |-> exc, used |-> used]

\* Step 4: parse what the translation call returned; None has no find().
\* (The one element of {e : x \in {v}} is e with x assigned the value of v.)
TranslateParse(r2, used, outcome) ==
    CASE outcome.kind = "raise" -> Attempt(r2, outcome.exc, used)
      [] outcome.kind = "return_none" ->
            Attempt(r2, Exc("AttributeError",
                            <<"'NoneType' object has no attribute 'find'">>), used)
      [] outcome.kind = "return" ->
            CHOOSE a \in {Attempt([r2 EXCEPT !.translation = p["translation"],
                                              !.context_explanation = p["context_explanation"],
                                              !.tone_notes = p["tone_notes"]],
                                   NoExc, used) :
                              p \in {parse_translation_response(outcome.text)}} : TRUE

\* Steps 2 and 3, given what the filter did (f): detect, build, call.
TranslateAfterFilter(content, service, f) ==
    IF f.outcome.kind = "raise"
    THEN Attempt(InitialResult(content), f.outcome.exc, f.used)
    ELSE LET r1 == [InitialResult(content) EXCEPT !.relevant_context = f.outcome.value]
             d == detect_language_instruction(content)
             r2 == [r1 EXCEPT !.cleaned = d.cleaned, !.target_language = d.target]
             exchange == service[Len(f.used) + 1]
         IN CHOOSE a \in {TranslateParse(r2, f.used \o <<exchange>>, outcome) :
                             outcome \in {call_mimo_api(exchange)}} : TRUE

\* The try block: filter, detect, call, parse.  exc is what it raised.
TranslateTry(content, window, service) ==
    CHOOSE a \in {TranslateAfterFilter(content, service, f) :
                    f \in {filter_context_with_ai(window, service[1])}} : TRUE

Finished(attempt, raised) ==
    [raised |-> raised, result |-> attempt.result, used |-> attempt.used]

\* A slip: only the typed error is handled, any other propagates.
TranslateExceptTypedOnly(attempt) ==
    CASE attempt.exc = NoExc -> Finished(attempt, FALSE)
      [] attempt.exc.class = "TranslationError" ->
            Finished([attempt EXCEPT !.result.error = Some(attempt.exc.msg)], FALSE)
      [] OTHER -> Finished(attempt, TRUE)

\* except TranslationError: error = str(e)
\* except Exception: error = "Unexpected error: " + str(e)
TranslateExcept(attempt) ==
    CASE attempt.exc = NoExc -> Finished(attempt, FALSE)
      [] attempt.exc.class = "TranslationError" ->
            Finished([attempt EXCEPT !.result.error = Some(attempt.exc.msg)], FALSE)
      [] OTHER ->
            Finished([attempt EXCEPT !.result.error =
                         Some(<<"Unexpected error: ">> \o attempt.exc.msg)], FALSE)

translate_with_context(content, window, service) ==
    CHOOSE t \in {TranslateExcept(a) : a \in {TranslateTry(content, window, service)}} : TRUE

\* {v: k for k, v in LANGUAGE_MAP.items()}[code]: a later item replaces an
\* earlier one with the same code, so the last name of the code stays.
LastNameOf(code) ==
    LANGUAGE_MAP[CHOOSE i \in 1..Len(LANGUAGE_MAP) :
                    /\ LANGUAGE_MAP[i].code = code
                    /\ \A j \in 1..Len(LANGUAGE_MAP) :
                          LANGUAGE_MAP[j].code = code => j <= i].name

\* lang_names_reverse.get(target_lang, target_lang)
lang_names_reverse_get(code) ==
    IF \E i \in 1..Len(LANGUAGE_MAP) : LANGUAGE_MAP[i].code = code
    THEN LastNameOf(code)
    ELSE <<code>>

\* translate: with an override the content is given the prefix
\* "fanyi wei <name> fw:" first; then translate_with_context.
translate(content, window, lang, service) ==
    CHOOSE t \in {translate_with_context(c, window, service) :
                    c \in {IF lang /= None
                           THEN <<"fanyi", "wei">> \o lang_names_reverse_get(lang[1])
                                    \o <<"fw:">> \o content
                           ELSE content}} : TRUE

\* The codes of LANGUAGE_MAP.
LanguageCodes == {LANGUAGE_MAP[i].code : i \in 1..Len(LANGUAGE_MAP)}

\* The overrides a caller may give: none, a code of the table, another code.
TargetLangs == {None} \cup {Some(code) : code \in LanguageCodes \cup {"xx"}}

OverrideIdle == target_lang = None

(***************************************************************************)
(* Inputs of the orchestrator.                                              *)
(***************************************************************************)
MessageContents ==
    { <<"hello">>,
      <<>>,
      <<"fanyi", "wei", "riwen", ":", " ", "hello">>,
      <<"fanyi", "cheng", "riwen", "\n", "hello">>,
      <<" ", "Translate", " ", "to", " ", "Japanese", ":", " ", "hello">>,
      <<"translate", " ", "into", " ", "klingon", " ", "hello">> }

\* Completion texts: empty, blank, plain, the requested format, the format
\* with an empty translation section.
TranslationReplies ==
    { <<>>,
      <<" ">>,
      <<"\n", " ", "\n">>,
      <<"a">>,
      Bracketed(TranslationLabel) \o <<"\n", "a", "\n">>
         \o Bracketed(ContextTermLabel) \o <<"\n", "b", "\n">>
         \o Bracketed(ToneNotesLabel) \o <<"\n", "a">>,
      Bracketed(TranslationLabel) \o <<"\n">>
         \o Bracketed(ContextTermLabel) \o <<"\n", "b">> }

TranslationExchanges ==
    FailingExchanges \cup {Exchange("ok", t) : t \in TranslationReplies}

\* What the service may answer to the filter's call within a translation.
FilterAnswers ==
    FailingExchanges
      \cup {Exchange("ok", <<"[">> \o Joined(l, <<",", " ">>) \o <<"]">>) :
               l \in UNION {[1..n -> {<<Digits[d + 1]>> : d \in 0..(MaxContext + 1)}] :
                                n \in 0..1}}
      \cup {Exchange("ok", <<"x">>)}

Services == {<<e1, e2>> : e1 \in FilterAnswers \cup TranslationExchanges,
                          e2 \in TranslationExchanges}

NotTranslated == [called |-> FALSE, raised |-> FALSE, result |-> InitialResult(<<>>)]

TranslateIdle ==
    /\ message_content = <<>>
    /\ translated = NotTranslated

(***************************************************************************)
(* Inputs of the language detection.  An instruction is a leading phrase,   *)
(* a language name, a delimiter and the text to translate.                  *)
(***************************************************************************)
\* The phrases the patterns are written for, in the order of the patterns.
LeadingPhrases ==
    { <<"fanyi", "wei">>, <<"fanyi", "cheng">>, <<"yi", "wei">>, <<"yi", "cheng">>,
      <<"translate", " ", "to", " ">>, <<"translate", " ", "into", " ">>,
      <<"Translate", " ", "to", " ">> }

\* The single-word names of LANGUAGE_MAP that the model carries.
LanguageNames ==
    { <<"zhongwen">>, <<"jianti", "zhongwen">>, <<"riwen">>, <<"english">>,
      <<"japanese">>, <<"Japanese">> }

\* What may stand between the name and the text.
Delimiters == { <<":", " ">>, <<":">>, <<"fw:">>, <<"fw:", " ">>, <<" ">>, <<"\n">> }

InstructedTexts == { <<"hello">>, <<"hello", " ", "a">> }

Instructions ==
    {ph \o n \o d \o t : ph \in LeadingPhrases, n \in LanguageNames,
                         d \in Delimiters, t \in InstructedTexts}

\* Messages that start with none of the phrases.
PlainContents ==
    { <<>>, <<"hello">>, <<" ", "hello", " ">>, <<"hello", "\n">>, <<"\n", "a", " ", "b">>,
      <<"hello", " ", "translate", " ", "to", " ", "japanese">>,
      <<"fanyi">>, <<"fanyi", ":", " ", "hello">>, <<"translate", " ", "to", " ">>,
      <<"translate", " ", "hello">>, <<" ", "yi", " ">> }

DetectContents == Instructions \cup PlainContents \cup MessageContents

NotDetected == [called |-> FALSE, cleaned |-> <<>>, target |-> None]

DetectIdle == detected = NotDetected

(***************************************************************************)
(* Inputs of the completion client, and the state of a client not called.   *)
(***************************************************************************)
ClientExchanges == FilterExchanges \cup TranslationExchanges

NotCompleted == [called |-> FALSE, exchange |-> Exchange("ok", <<>>),
                 outcome |-> Returned(<<>>)]

ClientIdle == completion = NotCompleted

(***************************************************************************)
(* The pipelines of the bot.  Every event handler (on_message, the reaction *)
(* handler) and the cleanup loop is a task of one asyncio event loop on one *)
(* thread; all of them use the one connection of that thread.  A task keeps *)
(* the thread from the statement it starts at to its next await: the store  *)
(* methods are plain functions without an await inside.                     *)
(***************************************************************************)
Pipelines == 1..NumPipelines

NoPipeline == 0

ConcIds == {1, 2}

ConcTimestamps == {isoformat(0, 1), isoformat(1, 1)}

ConcScopes == {[channel_id |-> "c1", thread_id |-> NULL],
               [channel_id |-> "c1", thread_id |-> "t1"]}

ConcRows == {Row(id, "hello", ts, sc.channel_id, sc.thread_id) :
                id \in ConcIds, ts \in ConcTimestamps, sc \in ConcScopes}

\* The transaction of the connection: closed, or open with the table as its
\* statements have left it.
NoTxn == [open |-> FALSE, table |-> {}]

\* What a statement executed on the connection reads.
Visible == IF working.open THEN working.table ELSE messages

\* A slip: pre-emptive scheduling, the store methods run on threads that
\* share the connection, a switch is possible between any two statements.
MayRunAnyTime(p) == TRUE

\* The event loop: a task runs when no other task is between two awaits.
MayRun(p) == running \in {NoPipeline, p}

IdleJob == [row |-> {}, msg_id |-> 0, limit |-> 0, target |-> {},
            now |-> [day |-> 0, time |-> 0], snapshots |-> {}]

\* History: the row of the last committed save_message of an id, the
\* pipeline that saved it, and whether it replaced a different row saved by
\* another pipeline.
NeverSaved == [row |-> {}, by |-> NoPipeline, overwrote |-> FALSE]

NoReturn == [called |-> FALSE, pipeline |-> NoPipeline, msg_id |-> 0, limit |-> 0,
             window |-> <<>>, snapshots |-> {}]

ConcIdle ==
    /\ running = NoPipeline
    /\ pc = <<>>
    /\ job = <<>>
    /\ working = NoTxn
    /\ committed = <<>>
    /\ returned = NoReturn

\* History: a committed table is one more snapshot for the context queries
\* in progress.
Observe(jobs, table) ==
    [q \in DOMAIN jobs |->
        IF pc[q] = "context_rows"
        THEN [jobs[q] EXCEPT !.snapshots = @ \cup {table}]
        ELSE jobs[q]]

\* save_message, the statement inside "with self._connection:".
SaveExecute(p) ==
    /\ ~returned.called
    /\ MayRun(p)
    /\ pc[p] = "idle"
    /\ \E row \in ConcRows :
          /\ working' = [open |-> TRUE, table |-> InsertOrReplace(Visible, row)]
          /\ job' = [job EXCEPT ![p] = [IdleJob EXCEPT !.row = {row}]]
    /\ pc' = [pc EXCEPT ![p] = "save_commit"]
    /\ running' = p
    /\ UNCHANGED <<messages, committed, returned>>
    /\ UNCHANGED <<ctx, lastSaved, parseVars, filterVars, transVars, detectVars, purgeVars, clientVars, botVars, overrideVars, cleanupVars>>

\* save_message, leaving the with block: commit, return True, and the
\* handler goes on to its next await.
SaveCommit(p) ==
    /\ ~returned.called
    /\ MayRun(p)
    /\ pc[p] = "save_commit"
    /\ messages' = Visible
    /\ working' = NoTxn
    /\ \E row \in job[p].row :
          committed' = [committed EXCEPT ![row.msg_id] =
              [row |-> {row}, by |-> p,
               overwrote |-> \E old \in committed[row.msg_id].row :
                                /\ old /= row
                                /\ old \in messages
                                /\ committed[row.msg_id].by /= p]]
    /\ job' = Observe([job EXCEPT ![p] = IdleJob], Visible)
    /\ pc' = [pc EXCEPT ![p] = "idle"]
    /\ running' = NoPipeline
    /\ UNCHANGED returned
    /\ UNCHANGED <<ctx, lastSaved, parseVars, filterVars, transVars, detectVars, purgeVars, clientVars, botVars, overrideVars, cleanupVars>>

\* save_message, sqlite3.Error in the with block: rollback, return False.
SaveRollback(p) ==
    /\ ~returned.called
    /\ MayRun(p)
    /\ pc[p] = "save_commit"
    /\ working' = NoTxn
    /\ job' = [job EXCEPT ![p] = IdleJob]
    /\ pc' = [pc EXCEPT ![p] = "idle"]
    /\ running' = NoPipeline
    /\ UNCHANGED <<messages, committed, returned>>
    /\ UNCHANGED <<ctx, lastSaved, parseVars, filterVars, transVars, detectVars, purgeVars, clientVars, botVars, overrideVars, cleanupVars>>

\* delete_old_messages, the DELETE inside "with self._connection:".
PurgeExecute(p) ==
    /\ ~returned.called
    /\ MayRun(p)
    /\ pc[p] = "idle"
    /\ \E now \in Nows :
          /\ working' = [open |-> TRUE,
                         table |-> {r \in Visible :
                                      ~TextLess(r.timestamp,
                                                sqlite_datetime(now, RetentionDays))}]
          /\ job' = [job EXCEPT ![p] = [IdleJob EXCEPT !.now = now]]
    /\ pc' = [pc EXCEPT ![p] = "purge_commit"]
    /\ running' = p
    /\ UNCHANGED <<messages, committed, returned>>
    /\ UNCHANGED <<ctx, lastSaved, parseVars, filterVars, transVars, detectVars, purgeVars, clientVars, botVars, overrideVars, cleanupVars>>

\* delete_old_messages, leaving the with block: commit; the cleanup loop
\* then sleeps.
PurgeCommit(p) ==
    /\ ~returned.called
    /\ MayRun(p)
    /\ pc[p] = "purge_commit"
    /\ messages' = Visible
    /\ working' = NoTxn
    /\ committed' = [id \in DOMAIN committed |->
                        IF committed[id].row \subseteq Visible
                        THEN committed[id] ELSE NeverSaved]
    /\ job' = Observe([job EXCEPT ![p] = IdleJob], Visible)
    /\ pc' = [pc EXCEPT ![p] = "idle"]
    /\ running' = NoPipeline
    /\ UNCHANGED returned
    /\ UNCHANGED <<ctx, lastSaved, parseVars, filterVars, transVars, detectVars, purgeVars, clientVars, botVars, overrideVars, cleanupVars>>

\* get_relevant_context, its first statement: get_message(msg_id).
ContextTarget(p) ==
    /\ ~returned.called
    /\ MayRun(p)
    /\ pc[p] = "idle"
    /\ \E msg_id \in ConcIds, limit \in Limits :
          job' = [job EXCEPT ![p] =
                     [IdleJob EXCEPT !.msg_id = msg_id, !.limit = limit,
                                     !.target = get_message(Visible, msg_id),
                                     !.snapshots = {messages}]]
    /\ pc' = [pc EXCEPT ![p] = "context_rows"]
    /\ running' = p
    /\ UNCHANGED <<messages, working, committed, returned>>
    /\ UNCHANGED <<ctx, lastSaved, parseVars, filterVars, transVars, detectVars, purgeVars, clientVars, botVars, overrideVars, cleanupVars>>

\* get_relevant_context, the rest: no target, no context; otherwise the
\* scoped query with the scope and the timestamp of the target read before,
\* and the rows reversed.
ContextRows(p) ==
    /\ ~returned.called
    /\ MayRun(p)
    /\ pc[p] = "context_rows"
    /\ \E w \in (IF job[p].target = {}
                 THEN {<<>>}
                 ELSE UNION {{Reverse(rows) :
                                rows \in OrderByDescLimit(
                                    ContextCandidates(Visible, target, job[p].msg_id),
                                    job[p].limit)} :
                             target \in job[p].target}) :
          returned' = [called |-> TRUE, pipeline |-> p, msg_id |-> job[p].msg_id,
                       limit |-> job[p].limit, window |-> w,
                       snapshots |-> job[p].snapshots]
    /\ job' = [job EXCEPT ![p] = IdleJob]
    /\ pc' = [pc EXCEPT ![p] = "idle"]
    /\ running' = NoPipeline
    /\ UNCHANGED <<messages, working, committed>>
    /\ UNCHANGED <<ctx, lastSaved, parseVars, filterVars, transVars, detectVars, purgeVars, clientVars, botVars, overrideVars, cleanupVars>>

(***************************************************************************)
(* The reaction handler of the bot (bot.py).  An emoji is a lexeme: "globe" *)
(* is the translation emoji, "flag_cn", "flag_jp" and "flag_gb" the flags.  *)
(***************************************************************************)
TRANSLATION_EMOJI == "globe"

FLAG_TO_LANG == [flag_cn |-> "zh", flag_jp |-> "ja", flag_gb |-> "en"]

Emojis == {TRANSLATION_EMOJI, "flag_cn", "flag_jp", "flag_gb", "thumbsup"}

\* What channel.fetch_message does.
FetchOutcomes == {"message", "NotFound", "Forbidden"}

\* A reaction event: the emoji, whether the reacting user is the bot itself,
\* whether get_channel finds the channel, what fetch_message does.
Reactions ==
    [emoji : Emojis, own : BOOLEAN, channel : BOOLEAN, fetch : FetchOutcomes]

NoReaction == [emoji |-> "", own |-> FALSE, channel |-> FALSE, fetch |-> "",
               number |-> 0]

NotHandling == [pc |-> "idle", target_lang |-> None, content |-> <<>>]

BotIdle ==
    /\ reaction = NoReaction
    /\ handler = NotHandling
    /\ sent = <<>>

\* The parameters of translate_with_context.
translate_with_context_parameters == {"message_content", "context_list"}

\* A call with keyword arguments binds when the function has a parameter for
\* every keyword; otherwise the call raises TypeError.
Binds(parameters, keywords) == keywords \subseteq parameters

\* _send_translation_response: the error response when the result has an
\* error, the translation otherwise.
ResponseKind(result) ==
    IF result.error /= None /\ result.error /= Some(<<>>)
    THEN "translation_error"
    ELSE "translation"

\* A reaction is added to a message; discord.py starts a handler task.
ReactionAdd ==
    /\ handler.pc \in {"idle", "done"}
    /\ reaction.number < NumReactions
    /\ \E r \in Reactions :
          reaction' = [emoji |-> r.emoji, own |-> r.own, channel |-> r.channel,
                       fetch |-> r.fetch, number |-> reaction.number + 1]
    /\ handler' = [NotHandling EXCEPT !.pc = "on_raw_reaction_add"]
    /\ UNCHANGED sent
    /\ UNCHANGED <<storeVars, parseVars, filterVars, transVars, detectVars, purgeVars, clientVars, concVars, overrideVars, cleanupVars>>

\* on_raw_reaction_add: the translation emoji or a flag, not the bot's own.
OnRawReactionAdd ==
    /\ handler.pc = "on_raw_reaction_add"
    /\ handler' =
          IF reaction.emoji = TRANSLATION_EMOJI
          THEN IF reaction.own THEN [handler EXCEPT !.pc = "done"]
               ELSE [handler EXCEPT !.pc = "get_channel"]
          ELSE IF reaction.emoji \in DOMAIN FLAG_TO_LANG
          THEN IF reaction.own THEN [handler EXCEPT !.pc = "done"]
               ELSE [handler EXCEPT !.pc = "get_channel",
                                    !.target_lang = Some(FLAG_TO_LANG[reaction.emoji])]
          ELSE [handler EXCEPT !.pc = "done"]
    /\ UNCHANGED <<reaction, sent>>
    /\ UNCHANGED <<storeVars, parseVars, filterVars, transVars, detectVars, purgeVars, clientVars, concVars, overrideVars, cleanupVars>>

\* _handle_translation_request: get_channel.
GetChannel ==
    /\ handler.pc = "get_channel"
    /\ handler' = [handler EXCEPT !.pc = IF reaction.channel THEN "fetch_message"
                                          ELSE "done"]
    /\ UNCHANGED <<reaction, sent>>
    /\ UNCHANGED <<storeVars, parseVars, filterVars, transVars, detectVars, purgeVars, clientVars, concVars, overrideVars, cleanupVars>>

\* _handle_translation_request: fetch_message and the user lookup.
FetchMessage ==
    /\ handler.pc = "fetch_message"
    /\ \E content \in MessageContents :
          handler' = IF reaction.fetch = "message"
                     THEN [handler EXCEPT !.pc = "typing", !.content = content]
                     ELSE [handler EXCEPT !.pc = "done"]
    /\ UNCHANGED <<reaction, sent>>
    /\ UNCHANGED <<storeVars, parseVars, filterVars, transVars, detectVars, purgeVars, clientVars, concVars, overrideVars, cleanupVars>>

\* _handle_translation_request, the typing block: the context, the call
\* translate_with_context(content, raw_context, target_lang=target_lang),
\* the response; any exception ends the handler in the except clause, which
\* prints.
TranslateAndRespond ==
    /\ handler.pc = "typing"
    /\ IF Binds(translate_with_context_parameters, {"target_lang"})
       THEN \E raw_context \in Windows, service \in Services :
               \E t \in {translate_with_context(handler.content, raw_context, service)} :
                  sent' = IF t.raised
                          THEN sent
                          ELSE Append(sent, [trigger |-> reaction.number,
                                             kind |-> ResponseKind(t.result)])
       ELSE sent' = sent
    /\ handler' = [handler EXCEPT !.pc = "done"]
    /\ UNCHANGED reaction
    /\ UNCHANGED <<storeVars, parseVars, filterVars, transVars, detectVars, purgeVars, clientVars, concVars, overrideVars, cleanupVars>>

(***************************************************************************)
(* The retention loop of the bot (bot.py, _periodic_cleanup): a task that   *)
(* setup_hook creates; while the bot is not closed it purges, then sleeps   *)
(* 24 hours.  The clock counts the sleeps that have ended, modulo NumDays.  *)
(***************************************************************************)
NotStarted == [pc |-> "not_started", ran |-> FALSE, day |-> 0, days |-> 0,
               outcome |-> "none", prev |-> "none"]

CleanupIdle ==
    /\ cleanup = NotStarted
    /\ clock = 0
    /\ closed = FALSE

\* What a call of delete_old_messages may do: delete and return the count;
\* catch sqlite3.Error and return 0; raise another exception.
PurgeOutcomes == {"deleted", "sqlite_error", "raised"}

\* A slip: no try/except around the purge, an exception ends the task.
CleanupNoExcept(outcome) == IF outcome = "raised" THEN "ended" ELSE "sleep"

\* try: ... except Exception: print; then await asyncio.sleep(86400).
CleanupExcept(outcome) == "sleep"

\* setup_hook: self.loop.create_task(self._periodic_cleanup())
StartCleanup ==
    /\ cleanup.pc = "not_started"
    /\ cleanup' = [cleanup EXCEPT !.pc = "check"]
    /\ UNCHANGED <<clock, closed>>
    /\ UNCHANGED <<storeVars, parseVars, filterVars, transVars, detectVars, purgeVars, clientVars, concVars, botVars, overrideVars>>

\* One turn of the loop, from the test of is_closed() to the sleep: the purge
\* with days=7, whatever it does.
CleanupCycle ==
    /\ cleanup.pc = "check"
    /\ ~closed
    /\ \E outcome \in PurgeOutcomes, now \in Nows :
          /\ messages' = IF outcome = "deleted"
                         THEN {r \in messages :
                                  ~TextLess(r.timestamp,
                                            sqlite_datetime(now, RetentionDays))}
                         ELSE messages
          /\ cleanup' = [pc |-> CleanupExcept(outcome), ran |-> TRUE, day |-> clock,
                         days |-> RetentionDays, outcome |-> outcome,
                         prev |-> cleanup.outcome]
    /\ UNCHANGED <<clock, closed, ctx, lastSaved>>
    /\ UNCHANGED <<parseVars, filterVars, transVars, detectVars, purgeVars, clientVars, concVars, botVars, overrideVars>>

\* The loop finds the bot closed and ends.
CleanupEnd ==
    /\ cleanup.pc = "check"
    /\ closed
    /\ cleanup' = [cleanup EXCEPT !.pc = "ended"]
    /\ UNCHANGED <<clock, closed>>
    /\ UNCHANGED <<storeVars, parseVars, filterVars, transVars, detectVars, purgeVars, clientVars, concVars, botVars, overrideVars>>

\* asyncio.sleep(86400) ends: 24 hours have passed.
SleepEnds ==
    /\ cleanup.pc = "sleep"
    /\ clock' = (clock + 1) % NumDays
    /\ cleanup' = [cleanup EXCEPT !.pc = "check"]
    /\ UNCHANGED closed
    /\ UNCHANGED <<storeVars, parseVars, filterVars, transVars, detectVars, purgeVars, clientVars, concVars, botVars, overrideVars>>

\* The bot is closed.
Close ==
    /\ ~closed
    /\ closed' = TRUE
    /\ UNCHANGED <<cleanup, clock>>
    /\ UNCHANGED <<storeVars, parseVars, filterVars, transVars, detectVars, purgeVars, clientVars, concVars, botVars, overrideVars>>

\* A reaction that asks for a translation is added: a recognised emoji, a
\* user other than the bot, a message that can be fetched.
TranslationRequested ==
    /\ ~closed
    /\ handler.pc \in {"idle", "done"}
    /\ reaction.number < NumReactions
    /\ \E emoji \in {TRANSLATION_EMOJI, "flag_jp"} :
          reaction' = [emoji |-> emoji, own |-> FALSE, channel |-> TRUE,
                       fetch |-> "message", number |-> reaction.number + 1]
    /\ handler' = [NotHandling EXCEPT !.pc = "on_raw_reaction_add"]
    /\ UNCHANGED sent
    /\ UNCHANGED <<storeVars, parseVars, filterVars, transVars, detectVars, purgeVars, clientVars, concVars, overrideVars, cleanupVars>>

\* on_message saves a message, old or recent.
OnMessage ==
    /\ ~closed
    /\ \E ts \in ConcTimestamps :
          save_message(1, "hello", ts, "c1", NULL)
    /\ UNCHANGED <<ctx, lastSaved>>
    /\ UNCHANGED <<parseVars, filterVars, transVars, detectVars, purgeVars, clientVars, concVars, botVars, overrideVars, cleanupVars>>

(***************************************************************************)
(* Inputs of the parser, and the state of a parser that was not called.    *)
(* A reply is a preamble followed by three slots, one per section of the   *)
(* requested format; a slot is a marker in any spelling (or none) followed  *)
(* by a filler.                                                            *)
(***************************************************************************)
AllMarkers == UNION {Range(sections[i].markers) : i \in 1..Len(sections)}

FillerPool == << <<>>,
                 <<" ", ":", " ", "a", " ">>,
                 <<"\n", "b", " ", "a", "\n">>,
                 <<"fw:", "b">>,
                 <<" ">> >>
Fillers == {FillerPool[i] : i \in 1..Min(NumFillers, Len(FillerPool))}
Preambles == {FillerPool[1], FillerPool[2]}
Slots == {m \o f : m \in AllMarkers \cup {<<>>}, f \in Fillers}
IsResponse(text) ==
    \E p \in Preambles, s1 \in Slots, s2 \in Slots, s3 \in Slots : text = p \o s1 \o s2 \o s3

NotParsed == [called |-> FALSE, result |-> EmptyParse]

ParseIdle ==
    /\ response = <<>>
    /\ parsed = NotParsed

(***************************************************************************)
(* SpecStore: any sequence of upserts and purges, then one context query.  *)
(* The query only reads the table and its returned list is a value of its  *)
(* own, so it is observed in the state right after the call.               *)
(***************************************************************************)
InitStore ==
    /\ CleanupIdle
    /\ OverrideIdle
    /\ BotIdle
    /\ ConcIdle
    /\ ClientIdle
    /\ PurgeIdle
    /\ DetectIdle
    /\ messages = {}
    /\ ctx = NoCtx
    /\ lastSaved = <<>>
    /\ ParseIdle
    /\ FilterIdle
    /\ TranslateIdle

SaveMessage ==
    /\ ~ctx.called
    /\ \E id \in MsgIds, ts \in Timestamps, sc \in Scopes :
          save_message(id, "hello", ts, sc.channel_id, sc.thread_id)
    /\ UNCHANGED <<ctx, lastSaved, parseVars, filterVars, transVars, detectVars, purgeVars, clientVars, concVars, botVars, overrideVars, cleanupVars>>

DeleteOldMessages ==
    /\ ~ctx.called
    /\ \E now \in Nows : delete_old_messages(RetentionDays, now)
    /\ UNCHANGED <<ctx, lastSaved, parseVars, filterVars, transVars, detectVars, purgeVars, clientVars, concVars, botVars, overrideVars, cleanupVars>>

GetRelevantContext ==
    /\ ~ctx.called
    /\ \E id \in MsgIds, limit \in Limits : get_relevant_context(id, limit)
    /\ UNCHANGED <<lastSaved, parseVars, filterVars, transVars, detectVars, purgeVars, clientVars, concVars, botVars, overrideVars, cleanupVars>>

NextStore == SaveMessage \/ DeleteOldMessages \/ GetRelevantContext

SpecStore == InitStore /\ [][NextStore]_vars

\* The stored rows get_message finds for the target of the observed call.
CtxTargets == get_message(messages, ctx.msg_id)

\* C3: a context window never contains the record of its own target id, and
\* is never longer than the limit the caller gave.
C3_WindowExcludesTargetWithinLimit ==
    ctx.called =>
        /\ \A i \in 1..Len(ctx.window) : ctx.window[i].msg_id /= ctx.msg_id
        /\ Len(ctx.window) <= ctx.limit

\* The target is stored, more rows qualify than the limit admits, and the
\* window is cut to the limit.
C3_Witness ==
    /\ ctx.called
    /\ ctx.limit > 0
    /\ Len(ctx.window) = ctx.limit
    /\ \E t \in CtxTargets :
          Cardinality(ContextCandidates(messages, t, ctx.msg_id)) > ctx.limit

\* C4: scopes never mix: the window of a target with a thread id holds only
\* records of that thread; the window of a target without one holds only
\* thread-less records of the target's channel.
C4_ScopesNeverMix ==
    ctx.called =>
        \A t \in CtxTargets : \A i \in 1..Len(ctx.window) :
            IF t.thread_id /= NULL
            THEN ctx.window[i].thread_id = t.thread_id
            ELSE /\ ctx.window[i].channel_id = t.channel_id
                 /\ ctx.window[i].thread_id = NULL

\* A thread-scoped target whose window is not empty, while the table holds
\* an earlier record of the same channel outside the thread.
C4_Witness ==
    /\ ctx.called
    /\ Len(ctx.window) > 0
    /\ \E t \in CtxTargets :
          /\ t.thread_id /= NULL
          /\ \E r \in messages :
                /\ r.channel_id = t.channel_id
                /\ r.thread_id /= t.thread_id
                /\ TextLess(r.timestamp, t.timestamp)

\* C5: a context window is in ascending timestamp order, oldest first, and
\* no record in it is later than the target.
C5_WindowChronological ==
    ctx.called =>
        /\ \A i \in 1..(Len(ctx.window) - 1) :
              TextLeq(ctx.window[i].timestamp, ctx.window[i + 1].timestamp)
        /\ \A t \in CtxTargets : \A i \in 1..Len(ctx.window) :
              TextLeq(ctx.window[i].timestamp, t.timestamp)

\* A window of two records of different timestamps.
C5_Witness ==
    /\ ctx.called
    /\ Len(ctx.window) = 2
    /\ TextLess(ctx.window[1].timestamp, ctx.window[2].timestamp)

(***************************************************************************)
(* SpecUpsert: any sequence of save_message calls, with the history of the *)
(* latest call per message id.                                             *)
(***************************************************************************)
UpsertIds == 1..NumUpsertIds
UpsertScopes == {sc \in Scopes : sc.channel_id = "c1" /\ sc.thread_id /= "t2"}

InitUpsert ==
    /\ CleanupIdle
    /\ OverrideIdle
    /\ BotIdle
    /\ ConcIdle
    /\ ClientIdle
    /\ PurgeIdle
    /\ DetectIdle
    /\ messages = {}
    /\ ctx = NoCtx
    /\ lastSaved = <<>>
    /\ ParseIdle
    /\ FilterIdle
    /\ TranslateIdle

\* lastSaved[id].replaced: some save_message found a different row under id.
Resave ==
    \E id \in UpsertIds, c \in Contents, ts \in Timestamps, sc \in UpsertScopes :
        /\ save_message(id, c, ts, sc.channel_id, sc.thread_id)
        /\ lastSaved' =
              [i \in DOMAIN lastSaved \cup {id} |->
                 IF i = id
                 THEN [row |-> Row(id, c, ts, sc.channel_id, sc.thread_id),
                       replaced |->
                          \/ (id \in DOMAIN lastSaved /\ lastSaved[id].replaced)
                          \/ get_message(messages, id)
                                \ {Row(id, c, ts, sc.channel_id, sc.thread_id)} /= {}]
                 ELSE lastSaved[i]]
        /\ UNCHANGED <<ctx, parseVars, filterVars, transVars, detectVars, purgeVars, clientVars, concVars, botVars, overrideVars, cleanupVars>>

NextUpsert == Resave

SpecUpsert == InitUpsert /\ [][NextUpsert]_vars

\* C6: after any sequence of save_message calls the table holds at most one
\* row per message id, and that row is the one the latest call for the id wrote.
C6_UpsertKeepsLatest ==
    \A id \in UpsertIds :
        /\ Cardinality(get_message(messages, id)) <= 1
        /\ id \in DOMAIN lastSaved => get_message(messages, id) = {lastSaved[id].row}
        /\ id \notin DOMAIN lastSaved => get_message(messages, id) = {}

\* An id saved again with other content: one row, holding the later content.
C6_Witness ==
    \E id \in DOMAIN lastSaved :
        /\ lastSaved[id].replaced
        /\ lastSaved[id].row.content = "hola"
        /\ get_message(messages, id) = {lastSaved[id].row}

(***************************************************************************)
(* SpecFilter: the context filter applied to a window, the completion       *)
(* service answering its call (if any) in any way.                          *)
(***************************************************************************)
InitFilter ==
    /\ CleanupIdle
    /\ OverrideIdle
    /\ BotIdle
    /\ ConcIdle
    /\ ClientIdle
    /\ PurgeIdle
    /\ DetectIdle
    /\ messages = {}
    /\ ctx = NoCtx
    /\ lastSaved = <<>>
    /\ ParseIdle
    /\ context_list \in Windows
    /\ calls = <<>>
    /\ filtered = NotFiltered
    /\ TranslateIdle

FilterContextWithAi ==
    /\ ~filtered.called
    /\ \E exchange \in FilterExchanges :
          \E r \in {filter_context_with_ai(context_list, exchange)} :
             /\ filtered' = [called |-> TRUE,
                              raised |-> r.outcome.kind = "raise",
                              result |-> r.outcome.value]
             /\ calls' = calls \o r.used
    /\ UNCHANGED <<context_list, storeVars, parseVars, transVars, detectVars, purgeVars, clientVars, concVars, botVars, overrideVars, cleanupVars>>

NextFilter == FilterContextWithAi

SpecFilter == InitFilter /\ [][NextFilter]_vars

\* What the filter's one call did, read off the exchange.
FilterCallRaised == Len(calls) = 1 /\ call_mimo_api(calls[1]).kind = "raise"

FilterReplyText == IF Len(calls) = 1 /\ call_mimo_api(calls[1]).kind = "return"
                   THEN call_mimo_api(calls[1]).text ELSE <<>>

\* The reply, its wrapping removed as the filter removes it, decoded.
FilterReplyDecoded == json_loads(ExtractArray(RemoveFences(Strip(FilterReplyText))))

\* No listed value is an index of a window entry.
NoIndexMaps ==
    \A i \in 1..Len(FilterReplyDecoded.items) :
        ~ValidIndex(FilterReplyDecoded.items[i], Len(context_list))

\* C7: the filter never raises, and it is fail-open: for a window of more
\* than 2 messages, when the completion call raises, or the reply does not
\* decode as JSON, or decodes to something that is not a list, or lists no
\* index of a window entry, the filter returns the original window.
C7_FilterFailsOpen ==
    filtered.called =>
        /\ ~filtered.raised
        /\ (/\ Len(context_list) > 2
            /\ \/ FilterCallRaised
               \/ Len(calls) = 1 /\ call_mimo_api(calls[1]).kind = "return"
                     /\ \/ ~FilterReplyDecoded.ok
                        \/ FilterReplyDecoded.kind /= "list"
                        \/ NoIndexMaps)
               => filtered.result = context_list

\* The filter called the service on a window of more than 2 messages, the
\* reply did not decode, and the filter returned the whole window.
C7_Witness ==
    /\ filtered.called
    /\ Len(context_list) > 2
    /\ Len(calls) = 1 /\ call_mimo_api(calls[1]).kind = "return"
    /\ FilterReplyText /= <<>>
    /\ ~FilterReplyDecoded.ok
    /\ ~filtered.raised
    /\ filtered.result = context_list

\* C8: on a window of 0, 1 or 2 messages the filter returns the window
\* unchanged and calls the completion service not at all.
C8_ShortWindowUnchangedNoCall ==
    (filtered.called /\ Len(context_list) <= 2) =>
        /\ ~filtered.raised
        /\ filtered.result = context_list
        /\ calls = <<>>

\* The filter has returned a window of 2 messages.
C8_Witness ==
    /\ filtered.called
    /\ Len(context_list) = 2
    /\ filtered.result = context_list
    /\ calls = <<>>

\* The number of times an entry occurs in a list.
Occurrences(list, entry) == Cardinality({i \in 1..Len(list) : list[i] = entry})

\* The list is the window with some entries left out: its entries are
\* window entries taken at ascending positions.
KeepsWindowOrder(list, window) ==
    \E f \in [1..Len(list) -> 1..Len(window)] :
        /\ \A i \in 1..Len(list) : window[f[i]] = list[i]
        /\ \A i, j \in 1..Len(list) : i < j => f[i] < f[j]

\* C20: for a window of more than 2 messages and any list of indices in the
\* reply (repeated, not ascending, 0, out of range), the filter returns a
\* subset of the window: every entry is a window entry, no entry occurs more
\* often than in the window, the entries are in the window's order, and the
\* result is not longer than the window.
C20_ResultIsSubsetOfWindow ==
    (filtered.called /\ Len(context_list) > 2) =>
        /\ Range(filtered.result) \subseteq Range(context_list)
        /\ \A e \in Range(filtered.result) :
              Occurrences(filtered.result, e) <= Occurrences(context_list, e)
        /\ KeepsWindowOrder(filtered.result, context_list)
        /\ Len(filtered.result) <= Len(context_list)

\* C20, the part that holds: every returned entry is a window entry, and the
\* result is the window or has one entry per index listed, in the order of
\* the list.
C20_EntriesAreWindowEntries ==
    (filtered.called /\ Len(context_list) > 2) =>
        /\ Range(filtered.result) \subseteq Range(context_list)
        /\ \/ filtered.result = context_list
           \/ /\ FilterReplyDecoded.ok
              /\ FilterReplyDecoded.kind = "list"
              /\ filtered.result =
                    SelectByIndices(context_list, FilterReplyDecoded.items, 1)

(***************************************************************************)
(* SpecTranslate: one translation of a message with a context window, the   *)
(* completion service answering each call in any way.                       *)
(***************************************************************************)
InitTranslate ==
    /\ CleanupIdle
    /\ OverrideIdle
    /\ BotIdle
    /\ ConcIdle
    /\ ClientIdle
    /\ PurgeIdle
    /\ DetectIdle
    /\ messages = {}
    /\ ctx = NoCtx
    /\ lastSaved = <<>>
    /\ ParseIdle
    /\ context_list \in Windows
    /\ calls = <<>>
    /\ filtered = NotFiltered
    /\ message_content \in MessageContents
    /\ translated = NotTranslated

TranslateWithContext ==
    /\ ~translated.called
    /\ \E service \in Services :
          \E t \in {translate_with_context(message_content, context_list, service)} :
             /\ translated' = [called |-> TRUE, raised |-> t.raised, result |-> t.result]
             /\ calls' = calls \o t.used
    /\ UNCHANGED <<message_content, context_list, filtered, storeVars, parseVars, detectVars, purgeVars, clientVars, concVars, botVars, overrideVars, cleanupVars>>

NextTranslate == TranslateWithContext

SpecTranslate == InitTranslate /\ [][NextTranslate]_vars

\* A field is populated when it holds a non-empty text.
TranslationPopulated == translated.result.translation /= <<>>
ErrorPopulated ==
    translated.result.error /= None /\ translated.result.error[1] /= <<>>

\* The last call of the translation, which asks for the translation itself.
LastOutcome == call_mimo_api(calls[Len(calls)])

\* C1: after translate_with_context returns, whatever the completion service
\* did (any text, empty or blank included, or any error), exactly one of the
\* translation field and the error field of the result is populated.
C1_ExactlyOneOfTranslationAndError ==
    (translated.called /\ ~translated.raised) =>
        (TranslationPopulated /= ErrorPopulated)

\* C1, the part that holds: never both fields populated; and one of them is,
\* unless the completion text is empty or blank.
C1_HoldsUnlessBlankCompletion ==
    (translated.called /\ ~translated.raised) =>
        /\ ~(TranslationPopulated /\ ErrorPopulated)
        /\ (LastOutcome.kind = "return" /\ Strip(LastOutcome.text) /= <<>>)
              => TranslationPopulated
        /\ LastOutcome.kind /= "return" => ErrorPopulated

\* Every call the translation made raised.
EveryCallRaised ==
    /\ Len(calls) >= 1
    /\ \A i \in 1..Len(calls) : call_mimo_api(calls[i]).kind = "raise"

\* C2: translate_with_context never raises; it returns a record with all its
\* fields, and when every completion call raised (the typed error or any
\* other exception) the error field is non-empty and the translation empty.
C2_NeverRaisesErrorOnFailure ==
    translated.called =>
        /\ ~translated.raised
        /\ DOMAIN translated.result = ResultKeys
        /\ EveryCallRaised =>
              /\ ErrorPopulated
              /\ translated.result.translation = <<>>

\* A window of more than 2 messages, both calls raised, the second one an
\* exception that is not the typed error, and the result reports it.
C2_Witness ==
    /\ translated.called
    /\ Len(context_list) > 2
    /\ Len(calls) = 2
    /\ EveryCallRaised
    /\ LastOutcome.exc.class = "KeyError"
    /\ ~translated.raised
    /\ translated.result.error = Some(<<"Unexpected error: ", "'message'">>)
    /\ translated.result.translation = <<>>

\* C16: one run of translate_with_context, whatever the size of the window,
\* issues at most one call to the completion service, and no failed call is
\* repeated.
C16_AtMostOneCompletionCall ==
    translated.called => Len(calls) <= 1

\* C16, the part that holds: one call for the translation, preceded by one
\* call for the filter when the window has more than 2 messages; a call that
\* failed is not repeated.
C16_OneCallPlusFilterCall ==
    translated.called =>
        Len(calls) = (IF Len(context_list) > 2 THEN 2 ELSE 1)

(***************************************************************************)
(* SpecDetect: the language detection applied to a message.                 *)
(***************************************************************************)
InitDetect ==
    /\ CleanupIdle
    /\ OverrideIdle
    /\ BotIdle
    /\ ConcIdle
    /\ ClientIdle
    /\ PurgeIdle
    /\ messages = {}
    /\ ctx = NoCtx
    /\ lastSaved = <<>>
    /\ ParseIdle
    /\ FilterIdle
    /\ message_content \in DetectContents
    /\ translated = NotTranslated
    /\ detected = NotDetected

DetectLanguageInstruction ==
    /\ ~detected.called
    /\ \E d \in {detect_language_instruction(message_content)} :
          detected' = [called |-> TRUE, cleaned |-> d.cleaned, target |-> d.target]
    /\ UNCHANGED <<message_content, translated, storeVars, parseVars, filterVars, purgeVars, clientVars, concVars, botVars, overrideVars, cleanupVars>>

NextDetect == DetectLanguageInstruction

SpecDetect == InitDetect /\ [][NextDetect]_vars

\* The message is the phrase, the name, the delimiter and the text, in a row.
IsInstruction(ph, n, d, t) == message_content = ph \o n \o d \o t

\* C11: for every leading phrase of the list, every single-word name of the
\* synonym table, an optional colon and a text, the detection of the phrase,
\* the name, the delimiter and the text returns the text as cleaned content
\* and the code of the name.
C11_InstructionGivesTextAndCode ==
    detected.called =>
        \A ph \in LeadingPhrases, n \in LanguageNames,
           d \in Delimiters, t \in InstructedTexts :
            IsInstruction(ph, n, d, t) =>
                /\ detected.cleaned = t
                /\ detected.target = LANGUAGE_MAP_get(LowerAll(n))
                /\ detected.target /= None

\* C11, the part that holds: the phrases ending in "wei" and the English
\* phrases give the text and the code.
C11_HoldsForWeiAndEnglishPhrases ==
    detected.called =>
        \A ph \in LeadingPhrases, n \in LanguageNames,
           d \in Delimiters, t \in InstructedTexts :
            (IsInstruction(ph, n, d, t) /\ ph[Len(ph)] /= "cheng") =>
                /\ detected.cleaned = t
                /\ detected.target = LANGUAGE_MAP_get(LowerAll(n))
                /\ detected.target /= None

\* No pattern matches the message, its surrounding whitespace removed.
NoPatternMatches ==
    \A k \in 1..Len(LANGUAGE_PATTERNS) :
        ~re_match(LANGUAGE_PATTERNS[k], Strip(message_content)).matched

\* C12: when no pattern matches, the detection returns the content as it
\* was given, leading and trailing whitespace included, and no code.
C12_NoMatchReturnsContentVerbatim ==
    (detected.called /\ NoPatternMatches) =>
        /\ detected.cleaned = message_content
        /\ detected.target = None

\* C12, the part that holds: the content without its surrounding
\* whitespace, and no code.
C12_NoMatchReturnsStrippedContent ==
    (detected.called /\ NoPatternMatches) =>
        /\ detected.cleaned = Strip(message_content)
        /\ detected.target = None

(***************************************************************************)
(* SpecPurge: any sequence of upserts, then one purge at some time of the   *)
(* day that follows the retention period.                                   *)
(***************************************************************************)
InitPurge ==
    /\ CleanupIdle
    /\ OverrideIdle
    /\ BotIdle
    /\ ConcIdle
    /\ ClientIdle
    /\ messages = {}
    /\ ctx = NoCtx
    /\ lastSaved = <<>>
    /\ ParseIdle
    /\ FilterIdle
    /\ TranslateIdle
    /\ DetectIdle
    /\ purge = NotPurged

SaveBeforePurge ==
    /\ ~purge.called
    /\ \E id \in MsgIds, ts \in Timestamps, sc \in Scopes :
          save_message(id, "hello", ts, sc.channel_id, sc.thread_id)
    /\ UNCHANGED <<ctx, lastSaved, purge, parseVars, filterVars, transVars, detectVars, clientVars, concVars, botVars, overrideVars, cleanupVars>>

PurgeOldMessages ==
    /\ ~purge.called
    /\ \E now \in Nows :
          /\ delete_old_messages(RetentionDays, now)
          /\ purge' = [called |-> TRUE, before |-> messages, after |-> messages',
                       now |-> now, days |-> RetentionDays,
                       deleted |-> rowcount(messages, RetentionDays, now)]
    /\ UNCHANGED <<ctx, lastSaved, parseVars, filterVars, transVars, detectVars, clientVars, concVars, botVars, overrideVars, cleanupVars>>

NextPurge == SaveBeforePurge \/ PurgeOldMessages

SpecPurge == InitPurge /\ [][NextPurge]_vars

\* The instant of a timestamp precedes the instant now minus days, whatever
\* separator the timestamp is written with.
PrecedesCutoff(ts, now, days) ==
    \/ ts.day < now.day - days
    \/ ts.day = now.day - days /\ ts.time < now.time

\* C13: the purge removes only records older than now minus days: every
\* record at or after the cutoff is still there afterwards, as it was.
C13_PurgeKeepsRecentRecords ==
    purge.called =>
        /\ purge.after \subseteq purge.before
        /\ \A r \in purge.before :
              ~PrecedesCutoff(r.timestamp, purge.now, purge.days) => r \in purge.after

\* A purge that removed a record and kept a record dated at the cutoff.
C13_Witness ==
    /\ purge.called
    /\ purge.after /= purge.before
    /\ \E r \in purge.after :
          /\ r.timestamp.day = purge.now.day - purge.days
          /\ ~PrecedesCutoff(r.timestamp, purge.now, purge.days)

\* C14: after the purge no record whose ISO-8601 timestamp precedes now
\* minus days remains, those of the cutoff day with an earlier time
\* included, and the count returned is the number of such records before.
C14_PurgeRemovesAllOlderRecords ==
    purge.called =>
        /\ \A r \in purge.after :
              ~PrecedesCutoff(r.timestamp, purge.now, purge.days)
        /\ purge.deleted =
              Cardinality({r \in purge.before :
                              PrecedesCutoff(r.timestamp, purge.now, purge.days)})

\* C14, the part that holds: no record dated before the cutoff day remains,
\* and the count returned is the number of records removed.
C14_HoldsBeforeCutoffDay ==
    purge.called =>
        /\ \A r \in purge.after : r.timestamp.day >= purge.now.day - purge.days
        /\ purge.deleted = Cardinality(purge.before \ purge.after)

(***************************************************************************)
(* SpecClient: one call of the completion client, the service answering in  *)
(* any way.                                                                 *)
(***************************************************************************)
InitClient ==
    /\ CleanupIdle
    /\ OverrideIdle
    /\ BotIdle
    /\ ConcIdle
    /\ messages = {}
    /\ ctx = NoCtx
    /\ lastSaved = <<>>
    /\ ParseIdle
    /\ FilterIdle
    /\ TranslateIdle
    /\ DetectIdle
    /\ PurgeIdle
    /\ completion = NotCompleted

CallMimoApi ==
    /\ ~completion.called
    /\ \E exchange \in ClientExchanges :
          completion' = [called |-> TRUE, exchange |-> exchange,
                         outcome |-> call_mimo_api(exchange)]
    /\ UNCHANGED <<storeVars, parseVars, filterVars, transVars, detectVars, purgeVars, concVars, botVars, overrideVars, cleanupVars>>

NextClient == CallMimoApi

SpecClient == InitClient /\ [][NextClient]_vars

\* The call returned a text, or raised the typed error with a cause.
ReturnedTextOrTypedError ==
    \/ completion.outcome.kind = "return"
    \/ /\ completion.outcome.kind = "raise"
       /\ completion.outcome.exc.class = "TranslationError"
       /\ completion.outcome.exc.msg /= <<>>

\* C15: call_mimo_api has two outcomes only: it returns the completion text
\* or raises TranslationError with a cause; a bad status, missing or empty
\* choices and any malformed payload raise TranslationError, nothing else.
C15_ReturnsTextOrRaisesTypedError ==
    completion.called => ReturnedTextOrTypedError

\* C15, the part that holds: every exchange but a first choice without a
\* message or content entry, and a null content.
C15_HoldsUnlessChoiceMalformed ==
    (completion.called
        /\ completion.exchange.kind \notin {"malformed_choice", "null_content"})
            => ReturnedTextOrTypedError

(***************************************************************************)
(* SpecConcurrent: the pipelines save, purge and query the store, each at   *)
(* any time the event loop lets it run, until one context query returns.    *)
(***************************************************************************)
InitConcurrent ==
    /\ CleanupIdle
    /\ OverrideIdle
    /\ BotIdle
    /\ messages = {}
    /\ ctx = NoCtx
    /\ lastSaved = <<>>
    /\ ParseIdle
    /\ FilterIdle
    /\ TranslateIdle
    /\ DetectIdle
    /\ PurgeIdle
    /\ ClientIdle
    /\ running = NoPipeline
    /\ pc = [p \in Pipelines |-> "idle"]
    /\ job = [p \in Pipelines |-> IdleJob]
    /\ working = NoTxn
    /\ committed = [id \in ConcIds |-> NeverSaved]
    /\ returned = NoReturn

NextConcurrent ==
    \E p \in Pipelines :
        \/ SaveExecute(p)
        \/ SaveCommit(p)
        \/ SaveRollback(p)
        \/ PurgeExecute(p)
        \/ PurgeCommit(p)
        \/ ContextTarget(p)
        \/ ContextRows(p)

SpecConcurrent == InitConcurrent /\ [][NextConcurrent]_vars

\* C17: however the save_message calls of the pipelines for one message id
\* interleave, the committed table holds exactly one record for an id that
\* was saved, and that record is, field for field, the row of the save that
\* committed last.
C17_OneRecordOfLastCommittedSave ==
    \A id \in ConcIds :
        {r \in messages : r.msg_id = id} = committed[id].row

\* A save of one pipeline has replaced a different row that another pipeline
\* had saved under the same id.
C17_Witness ==
    \E id \in ConcIds :
        /\ committed[id].overwrote
        /\ committed[id].row /= {}
        /\ committed[id].row \subseteq messages

\* C18: the window a context query returns is a window of the query over one
\* of the tables committed between its call and its return, whatever the
\* other pipelines saved or purged meanwhile.
C18_WindowOfOneSnapshot ==
    returned.called =>
        \E table \in returned.snapshots :
            returned.window \in ContextWindows(table, returned.msg_id, returned.limit)

\* A query returned rows while the target or a row of its window had been
\* saved by another pipeline.
C18_Witness ==
    /\ returned.called
    /\ returned.window /= <<>>
    /\ \E id \in ConcIds :
          committed[id].by \notin {NoPipeline, returned.pipeline}

(***************************************************************************)
(* SpecBot: reactions arrive one after the other, each handled by the      *)
(* reaction handler.  SpecBotFair: the event loop runs every handler task  *)
(* that can take a step.                                                   *)
(***************************************************************************)
InitBot ==
    /\ CleanupIdle
    /\ OverrideIdle
    /\ messages = {}
    /\ ctx = NoCtx
    /\ lastSaved = <<>>
    /\ ParseIdle
    /\ FilterIdle
    /\ TranslateIdle
    /\ DetectIdle
    /\ PurgeIdle
    /\ ClientIdle
    /\ ConcIdle
    /\ reaction = NoReaction
    /\ handler = NotHandling
    /\ sent = <<>>

HandlerStep == OnRawReactionAdd \/ GetChannel \/ FetchMessage \/ TranslateAndRespond

NextBot == ReactionAdd \/ HandlerStep

SpecBot == InitBot /\ [][NextBot]_vars

SpecBotFair == SpecBot /\ WF_vars(HandlerStep)

\* A trigger of the claim: a recognised symbol, a user other than the bot, a
\* message that can be fetched.
TriggerOfClaim ==
    /\ reaction.emoji \in {TRANSLATION_EMOJI} \cup DOMAIN FLAG_TO_LANG
    /\ ~reaction.own
    /\ reaction.channel
    /\ reaction.fetch = "message"

\* The handler of such a trigger has just started.
Triggered == handler.pc = "on_raw_reaction_add" /\ TriggerOfClaim

\* A message was sent for the reaction in hand.
Answered == \E i \in 1..Len(sent) : sent[i].trigger = reaction.number

\* C19: every reaction trigger with a recognised symbol, by a user other
\* than the bot, on a message that can be fetched, eventually gets a message
\* the user sees, the translation or a failure response.
C19_TriggerEventuallyAnswered == Triggered ~> Answered

\* C19 as a final result: a handler that has ended for such a trigger has
\* sent a message.
C19_NoTriggerEndsUnanswered ==
    (handler.pc = "done" /\ TriggerOfClaim) => Answered

\* C19, what the handler does instead: it never sends anything.
C19_NothingIsEverSent == sent = <<>>

(***************************************************************************)
(* SpecParse: the parser applied to a raw reply.                           *)
(***************************************************************************)
InitParse ==
    /\ CleanupIdle
    /\ OverrideIdle
    /\ BotIdle
    /\ ConcIdle
    /\ ClientIdle
    /\ PurgeIdle
    /\ DetectIdle
    /\ messages = {}
    /\ ctx = NoCtx
    /\ lastSaved = <<>>
    /\ IsResponse(response)
    /\ parsed = NotParsed
    /\ FilterIdle
    /\ TranslateIdle

ParseTranslationResponse ==
    /\ ~parsed.called
    /\ parsed' = [called |-> TRUE, result |-> parse_translation_response(response)]
    /\ UNCHANGED <<response, storeVars, filterVars, transVars, detectVars, purgeVars, clientVars, concVars, botVars, overrideVars, cleanupVars>>

NextParse == ParseTranslationResponse

SpecParse == InitParse /\ [][NextParse]_vars

\* The positions where marker m occurs in the text.
Occurs(text, m) ==
    {i \in 0..(Len(text) - Len(m)) :
        text[i + 1] = m[1] /\ Slice(text, i, i + Len(m)) = m}

\* Every occurrence of a marker of the k-th section in the text: (pos, len).
SectionOccurrences(text, k) ==
    UNION {{[pos |-> i, marker_len |-> Len(sections[k].markers[j])] :
              i \in Occurs(text, sections[k].markers[j])} :
           j \in 1..Len(sections[k].markers)}

SectionIndex(name) == CHOOSE k \in 1..Len(sections) : sections[k].name = name

MarkerOccurrences(text, name) == SectionOccurrences(text, SectionIndex(name))

AllOccurrences(text) == UNION {MarkerOccurrences(text, n) : n \in SectionNames}

\* The text between the end of the marker at occurrence o and the start of the
\* next marker (or the end of the text), a leading colon and the surrounding
\* whitespace stripped.
TextAfterMarker(text, o) ==
    LET later == {q.pos : q \in {q \in AllOccurrences(text) : q.pos > o.pos}}
        end == IF later = {} THEN Len(text)
               ELSE CHOOSE e \in later : \A f \in later : e <= f
    IN Strip(IF Strip(Slice(text, o.pos + o.marker_len, end)) /= <<>>
                /\ Head(Strip(Slice(text, o.pos + o.marker_len, end))) \in Colons
             THEN Tail(Strip(Slice(text, o.pos + o.marker_len, end)))
             ELSE Slice(text, o.pos + o.marker_len, end))

OneMarkerPerSection(text) ==
    \A n \in SectionNames : Cardinality(MarkerOccurrences(text, n)) = 1

\* C9: for a text with one marker for each of the three sections, in any order
\* and spelling, each field is exactly the text between the end of its marker
\* and the start of the next marker (or the end of the text), with a leading
\* colon and the surrounding whitespace stripped.
C9_EachFieldIsItsSectionText ==
    (parsed.called /\ OneMarkerPerSection(response)) =>
        \A n \in SectionNames : \A o \in MarkerOccurrences(response, n) :
            parsed.result[n] = TextAfterMarker(response, o)

\* C9 for the texts whose translation section is not empty.
C9_HoldsWhenTranslationNotEmpty ==
    (/\ parsed.called
     /\ OneMarkerPerSection(response)
     /\ \A o \in MarkerOccurrences(response, "translation") :
           TextAfterMarker(response, o) /= <<>>) =>
        \A n \in SectionNames : \A o \in MarkerOccurrences(response, n) :
            parsed.result[n] = TextAfterMarker(response, o)

\* C10: for a text with no section marker at all, translation is the whole
\* text, whitespace-trimmed, and the two other fields are empty.
C10_NoMarkerWholeTextIsTranslation ==
    (parsed.called /\ AllOccurrences(response) = {}) =>
        /\ parsed.result["translation"] = Strip(response)
        /\ parsed.result["context_explanation"] = <<>>
        /\ parsed.result["tone_notes"] = <<>>

\* A marker-free text with whitespace around it has been parsed.
C10_Witness ==
    /\ parsed.called
    /\ AllOccurrences(response) = {}
    /\ Strip(response) /= <<>>
    /\ Strip(response) /= response
    /\ parsed.result["translation"] = Strip(response)

\* No field holds a marker of another section.
NoForeignMarker(result) ==
    \A n \in SectionNames : \A m \in SectionNames \ {n} :
        MarkerOccurrences(result[n], m) = {}

\* The translation field holds nothing of what the two other fields hold.
TranslationHoldsNoOtherField(result) ==
    \A n \in SectionNames \ {"translation"} :
        result[n] /= <<>> => Occurs(result["translation"], result[n]) = {}

\* C21: when a section marker is found in the text, the three fields are
\* disjoint spans of it: no field holds a marker of another section, and
\* when there is no translation marker the translation field holds nothing
\* of the text given to context_explanation or tone_notes.
C21_FieldsAreDisjointSpans ==
    (parsed.called /\ AllOccurrences(response) /= {}) =>
        /\ NoForeignMarker(parsed.result)
        /\ MarkerOccurrences(response, "translation") = {}
              => TranslationHoldsNoOtherField(parsed.result)

\* C21, the part that holds: when every section has at most one marker in
\* the text and the translation section is found and not empty, no field
\* holds a marker of another section.
C21_HoldsWhenTranslationNotEmpty ==
    (/\ parsed.called
     /\ AllOccurrences(response) /= {}
     /\ \A n \in SectionNames : Cardinality(MarkerOccurrences(response, n)) <= 1
     /\ \E o \in MarkerOccurrences(response, "translation") :
           TextAfterMarker(response, o) /= <<>>) =>
        NoForeignMarker(parsed.result)

(***************************************************************************)
(* SpecOverride: one call of translate with or without a language          *)
(* override, the completion service answering in any way.                  *)
(***************************************************************************)
InitOverride ==
    /\ CleanupIdle
    /\ messages = {}
    /\ ctx = NoCtx
    /\ lastSaved = <<>>
    /\ ParseIdle
    /\ DetectIdle
    /\ PurgeIdle
    /\ ClientIdle
    /\ ConcIdle
    /\ BotIdle
    /\ context_list \in {Window(0), Window(1)}
    /\ calls = <<>>
    /\ filtered = NotFiltered
    /\ message_content \in MessageContents \cup PlainContents
    /\ translated = NotTranslated
    /\ target_lang \in TargetLangs

Translate ==
    /\ ~translated.called
    /\ \E service \in Services :
          \E t \in {translate(message_content, context_list, target_lang, service)} :
             /\ translated' = [called |-> TRUE, raised |-> t.raised, result |-> t.result]
             /\ calls' = calls \o t.used
    /\ UNCHANGED <<message_content, context_list, filtered, target_lang>>
    /\ UNCHANGED <<storeVars, parseVars, detectVars, purgeVars, clientVars, concVars, botVars, cleanupVars>>

NextOverride == Translate

SpecOverride == InitOverride /\ [][NextOverride]_vars

\* C22: translate with target_lang = L honours the override for every code
\* L of the language table: the result's target_language is L and its
\* cleaned field is the caller's content, nothing of the prefix left.
C22_OverrideIsHonoured ==
    (translated.called /\ target_lang /= None /\ target_lang[1] \in LanguageCodes) =>
        /\ translated.result.target_language = target_lang
        /\ translated.result.cleaned = message_content

\* C22, the part that holds: for the codes whose last name in the table is
\* one word (all but zh and zh-tw) the target language is the override and
\* the cleaned field is the caller's content with the surrounding
\* whitespace stripped.
C22_HoldsForOneWordNames ==
    (/\ translated.called
     /\ target_lang /= None
     /\ target_lang[1] \in LanguageCodes \ {"zh", "zh-tw"}) =>
        /\ translated.result.target_language = target_lang
        /\ translated.result.cleaned = Strip(message_content)

(***************************************************************************)
(* SpecCleanup: the retention loop beside the message handler and the      *)
(* reaction handler, until and after the bot is closed.  SpecCleanupFair:  *)
(* the event loop runs the retention task whenever it can take a step, and *)
(* a sleep ends.                                                           *)
(***************************************************************************)
InitCleanup ==
    /\ messages = {}
    /\ ctx = NoCtx
    /\ lastSaved = <<>>
    /\ ParseIdle
    /\ FilterIdle
    /\ TranslateIdle
    /\ DetectIdle
    /\ PurgeIdle
    /\ ClientIdle
    /\ ConcIdle
    /\ BotIdle
    /\ OverrideIdle
    /\ cleanup = NotStarted
    /\ clock = 0
    /\ closed = FALSE

CleanupStep == StartCleanup \/ CleanupCycle \/ CleanupEnd \/ SleepEnds

NextCleanup == CleanupStep \/ Close \/ OnMessage \/ TranslationRequested \/ HandlerStep

SpecCleanup == InitCleanup /\ [][NextCleanup]_vars

SpecCleanupFair == SpecCleanup /\ WF_vars(CleanupStep)

\* A translation request is in flight: its handler is at an await.
RequestInFlight == handler.pc \in {"get_channel", "fetch_message", "typing"}

\* The step is a purge cycle of the retention loop.
IsPurgeCycle == cleanup.pc = "check" /\ cleanup'.pc /= "check" /\ ~closed

\* C23: the retention loop runs until the bot is closed: it ends only when
\* the bot is closed, also after a purge that raised; every purge has a 7-day
\* retention and, but for the first, comes 24 hours after the one before;
\* while the bot is not closed a purge is followed by another purge; and a
\* purge cycle changes nothing of a translation request.
C23_RetentionLoopKeepsRunning ==
    /\ [](cleanup.pc = "ended" => closed)
    /\ [](cleanup.ran => cleanup.days = RetentionDays)
    /\ [][IsPurgeCycle =>
            /\ cleanup'.pc = "sleep"
            /\ cleanup.ran => cleanup'.day = (cleanup.day + 1) % NumDays
            /\ UNCHANGED <<reaction, handler, sent>>]_vars
    /\ \A d \in 0..(NumDays - 1) :
          (cleanup.pc = "sleep" /\ cleanup.day = d /\ ~closed)
              ~> (closed \/ (cleanup.pc = "sleep"
                               /\ cleanup.day = (d + 1) % NumDays))

\* A purge has run after a purge that raised, the bot not closed, a
\* translation request in flight.
C23_Witness ==
    /\ cleanup.pc = "sleep"
    /\ cleanup.prev = "raised"
    /\ cleanup.days = RetentionDays
    /\ ~closed
    /\ RequestInFlight
    /\ messages /= {}

====
